---- MODULE Spec2Model ----
(***************************************************************************)
(* Model of the EIP-7702 bundle engine of futarchy-arbitrage:              *)
(*   src/src/arbitrage_commands/buy_cond_eip7702.py  (bundle construction, *)
(*       dry run, three-step simulation, broadcast)                        *)
(*   src/src/helpers/bundle_helpers.py  (call encoders, result decoders,   *)
(*       liquidation planner)                                              *)
(* Amounts of the run specification are wei drawn from small sets; the     *)
(* float arithmetic of the 10% buffer is modelled bit-exactly on limb      *)
(* numerals, so that the same operator serves small and 18-decimal inputs. *)
(***************************************************************************)
EXTENDS Integers, Sequences, FiniteSets, TLC

VARIABLES
    pc,                 \* position of buy_conditional_bundled
    amount_wei,         \* w3.to_wei(amount, 'ether')
    broadcast,          \* the --send flag
    min_profit,         \* the minimum net the caller wants cleared (the entry point takes no such argument)
    bundle,             \* the bundle built last
    sim_log,            \* every eth_call issued, with the bytes it returned
    parsed_discovery,   \* parse_bundle_results of step 1
    parsed_balanced,    \* parse_bundle_results of step 2
    parsed_final,       \* parse_bundle_results of step 3
    yes_out, no_out,    \* extract_swap_outputs(parsed_discovery)
    target_amount,      \* min(yes_out, no_out)
    yes_used, no_used,  \* amounts used, step 2
    liquidation,        \* [amount, token_type]
    simulation_results, \* dict returned by simulate_buy_conditional_bundle
    builder_calls,      \* calls added to the EIP7702TransactionBuilder
    tx_sent,            \* transactions handed to send_raw_transaction
    error,              \* exception that reached the caller
    result,             \* dict returned by buy_conditional_bundled
    chain,              \* persistent state of the chain: the account's nonce, code and sDAI, the markets
    fn_pc, fn_args, fn_liq, fn_bundle,   \* pure functions applied to drawn arguments
    cap_pc, cap_amount, cap_max_input,   \* the 10% buffer on 18-decimal amounts (limb numerals)
    s_pc, s_prog, s_args,   \* a script of scripts/: its position, which script, its arguments
    s_chain,                \* the account the script sees: nonce, code, sDAI
    s_nonce, s_auth,        \* the nonce the script read, the authorization it signed
    s_calls, s_tx, s_sent,  \* the calls it constructed, the transaction it built, what it sent
    s_ret,                  \* what the script returned
    b_pc, b_prog, b_len,    \* a bot of arbitrage_commands/: position, which bot, transactions per run
    b_account,              \* the bot account's nonce on the chain
    b_nonce, b_i, b_runs,   \* the nonce read in this run, the next transaction, runs started
    b_log,                  \* nonce reads and broadcasts of the bot, in order
    t_pc, t_prog, t_in,     \* a tool or helper applied to drawn inputs: position, which one, inputs
    t_st, t_log, t_out      \* its local state, what it sent or printed in order, what it returned

vars == <<pc, amount_wei, broadcast, min_profit, bundle, sim_log,
          parsed_discovery, parsed_balanced, parsed_final, yes_out, no_out,
          target_amount, yes_used, no_used, liquidation, simulation_results,
          builder_calls, tx_sent, error, result, chain,
          fn_pc, fn_args, fn_liq, fn_bundle, cap_pc, cap_amount, cap_max_input,
          s_pc, s_prog, s_args, s_chain, s_nonce, s_auth, s_calls, s_tx, s_sent, s_ret,
          b_pc, b_prog, b_len, b_account, b_nonce, b_i, b_runs, b_log,
          t_pc, t_prog, t_in, t_st, t_log, t_out>>

runVars == <<pc, amount_wei, broadcast, min_profit, bundle, sim_log,
             parsed_discovery, parsed_balanced, parsed_final, yes_out, no_out,
             target_amount, yes_used, no_used, liquidation, simulation_results,
             builder_calls, tx_sent, error, result, chain>>
fnVars == <<fn_pc, fn_args, fn_liq, fn_bundle>>
capVars == <<cap_pc, cap_amount, cap_max_input>>
scriptVars == <<s_pc, s_prog, s_args, s_chain, s_nonce, s_auth, s_calls, s_tx, s_sent, s_ret>>
botVars == <<b_pc, b_prog, b_len, b_account, b_nonce, b_i, b_runs, b_log>>
toolVars == <<t_pc, t_prog, t_in, t_st, t_log, t_out>>
otherVars == <<fnVars, capVars, scriptVars, botVars, toolVars>>

(***************************************************************************)
(* Bounds of the model                                                     *)
(***************************************************************************)
MaxAmount == 12         \* largest input amount of a run, in wei
MaxWord == 12           \* largest uint256 word the node returns in a result
MaxMinProfit == 1       \* largest minimum net profit a caller asks for
MaxFnAmount == 20       \* largest argument of the pure functions
CapMaxK == 100          \* the 18-decimal inputs are k * 10^16 wei, k in 1..CapMaxK
MaxNonce == 2           \* largest nonce of an account before a script or a bot starts
MaxTxs == 3             \* most transactions simple_bot sends in one run
MaxFee == 10            \* largest base fee and gas price of the chain, in wei
MaxRuns == 2            \* runs of a bot's loop that are followed

(***************************************************************************)
(* Program constants                                                       *)
(***************************************************************************)
MAX_CALLS == 10             \* the call limit of the batch executor
MAX_UINT256 == 2147483647   \* stands for 2**256 - 1: above every amount of the model
LIGHT_BUNDLE == 3            \* transactions of light_bot's bundle: split, YES swap, NO swap
DEADLINE_WINDOW == 600       \* seconds a swap stays valid: deadline = int(time.time()) + 600
BUNDLE_GAS == 2000000        \* gas limit of a bundle transaction
MANTISSA_BITS == 53         \* precision of a Python float (IEEE-754 binary64)
LIMB_BITS == 12             \* width of a limb of the numerals
WEI_DECIMALS_CENTI == 16    \* 0.01 ether = 10^16 wei

None == [none |-> TRUE]     \* Python None (results, errors not yet set)

(***************************************************************************)
(* Numerals: little-endian sequences of 12-bit limbs, no leading zero limb.*)
(* They carry Python's unbounded ints where the values exceed the range of *)
(* the model checker's integers.                                           *)
(***************************************************************************)
RECURSIVE Pow2(_)
Pow2(n) == IF n = 0 THEN 1 ELSE 2 * Pow2(n - 1)

LIMB == Pow2(LIMB_BITS)

RECURSIVE IntToBig(_)
IntToBig(n) == IF n = 0 THEN <<>> ELSE <<n % LIMB>> \o IntToBig(n \div LIMB)

RECURSIVE BigToInt(_)
BigToInt(a) == IF a = <<>> THEN 0 ELSE Head(a) + LIMB * BigToInt(Tail(a))

RECURSIVE BigNorm(_)
BigNorm(a) ==
    IF a = <<>> THEN <<>>
    ELSE IF a[Len(a)] = 0 THEN BigNorm(SubSeq(a, 1, Len(a) - 1)) ELSE a

RECURSIVE BigAddC(_, _, _)
BigAddC(a, b, c) ==
    IF a = <<>> /\ b = <<>> THEN (IF c = 0 THEN <<>> ELSE <<c>>)
    ELSE LET x == IF a = <<>> THEN 0 ELSE Head(a)
             y == IF b = <<>> THEN 0 ELSE Head(b)
             s == x + y + c
         IN  <<s % LIMB>> \o BigAddC(IF a = <<>> THEN <<>> ELSE Tail(a),
                                     IF b = <<>> THEN <<>> ELSE Tail(b), s \div LIMB)

BigAdd(a, b) == BigNorm(BigAddC(a, b, 0))

RECURSIVE BigMulSmallC(_, _, _)
BigMulSmallC(a, d, c) ==   \* a * d + c for a digit d below LIMB
    IF a = <<>> THEN (IF c = 0 THEN <<>> ELSE <<c>>)
    ELSE LET p == Head(a) * d + c
         IN  <<p % LIMB>> \o BigMulSmallC(Tail(a), d, p \div LIMB)

RECURSIVE BigMul(_, _)
BigMul(a, b) ==
    IF a = <<>> \/ b = <<>> THEN <<>>
    ELSE BigAdd(BigNorm(BigMulSmallC(a, Head(b), 0)),
                LET t == BigMul(a, Tail(b)) IN IF t = <<>> THEN <<>> ELSE <<0>> \o t)

RECURSIVE BigLeq(_, _)
BigLeq(a, b) ==
    IF Len(a) # Len(b) THEN Len(a) < Len(b)
    ELSE IF a = <<>> THEN TRUE
    ELSE IF a[Len(a)] # b[Len(b)] THEN a[Len(a)] < b[Len(b)]
    ELSE BigLeq(BigNorm(SubSeq(a, 1, Len(a) - 1)), BigNorm(SubSeq(b, 1, Len(b) - 1)))

RECURSIVE BigPow10(_)
BigPow10(n) == IF n = 0 THEN <<1>> ELSE BigNorm(BigMulSmallC(BigPow10(n - 1), 10, 0))

RECURSIVE SmallBitLen(_)
SmallBitLen(n) == IF n = 0 THEN 0 ELSE 1 + SmallBitLen(n \div 2)

\* number of significant bits
BigBitLen(a) == IF a = <<>> THEN 0 ELSE LIMB_BITS * (Len(a) - 1) + SmallBitLen(a[Len(a)])

\* bit i of a, bit 0 the least significant
BigBit(a, i) ==
    LET k == (i \div LIMB_BITS) + 1
    IN  IF k > Len(a) THEN 0 ELSE (a[k] \div Pow2(i % LIMB_BITS)) % 2

\* a >> s
BigShr(a, s) ==
    LET k == s \div LIMB_BITS
        r == s % LIMB_BITS
        limb(j) == IF j > Len(a) THEN 0 ELSE a[j]
    IN  IF k >= Len(a) THEN <<>>
        ELSE BigNorm([j \in 1..(Len(a) - k) |->
                        (limb(j + k) \div Pow2(r))
                        + (limb(j + k + 1) % Pow2(r)) * Pow2(LIMB_BITS - r)])

\* a << s
BigShl(a, s) ==
    IF a = <<>> THEN <<>>
    ELSE [j \in 1..(s \div LIMB_BITS) |-> 0]
         \o BigNorm(BigMulSmallC(a, Pow2(s % LIMB_BITS), 0))

(***************************************************************************)
(* Python floats: [m, e] is the value m * 2^e with m below 2^53.           *)
(***************************************************************************)
\* round a numeral to 53 significant bits, ties to even
Round53(a) ==
    IF BigBitLen(a) <= MANTISSA_BITS THEN [m |-> a, e |-> 0]
    ELSE LET s == BigBitLen(a) - MANTISSA_BITS
             q == BigShr(a, s)
             half == BigBit(a, s - 1)
             sticky == \E i \in 0..(s - 2) : BigBit(a, i) = 1
             up == half = 1 /\ (sticky \/ BigBit(q, 0) = 1)
             r == IF up THEN BigAdd(q, <<1>>) ELSE q
         IN  IF BigBitLen(r) > MANTISSA_BITS THEN [m |-> BigShr(r, 1), e |-> s + 1]
             ELSE [m |-> r, e |-> s]

\* int -> float conversion of the int operand of a mixed int * float product
FloatOfInt(a) == Round53(a)

\* the literal 1.1 = 0x1.199999999999ap+0: mantissa 0x1199999999999a, in 12-bit limbs, least significant first
FLOAT_1_1 == [m |-> <<2458, 2457, 2457, 2457, 17>>, e |-> 0 - 52]

\* the Python float 0.95: 0x1.e666666666666p-1
FLOAT_0_95 == [m |-> <<1638, 1638, 1638, 1638, 30>>, e |-> 0 - 53]

FloatMul(x, y) ==
    LET r == Round53(BigMul(x.m, y.m))
    IN  [m |-> r.m, e |-> x.e + y.e + r.e]

\* int(f) for a float that is not negative: truncation
IntOfFloat(f) == IF f.e >= 0 THEN BigShl(f.m, f.e) ELSE BigShr(f.m, 0 - f.e)

\* int(n * 1.1) on numerals
TimesOnePointOneBig(n) == IntOfFloat(FloatMul(FloatOfInt(n), FLOAT_1_1))

\* int(n * 1.1) on the integers of the run specification
TimesOnePointOne(n) == BigToInt(TimesOnePointOneBig(IntToBig(n)))

(***************************************************************************)
(* Call Encoder (bundle_helpers.py).  The data of a call is kept as its    *)
(* selector and its encoded arguments.                                     *)
(***************************************************************************)
encode_approval_call(token, spender, amount) ==
    [target |-> token, value |-> 0,
     data |-> [selector |-> "approve", spender |-> spender, amount |-> amount]]

encode_split_position_call(router, proposal, collateral, amount) ==
    [target |-> router, value |-> 0,
     data |-> [selector |-> "splitPosition", proposal |-> proposal,
               collateral |-> collateral, amount |-> amount]]

encode_merge_positions_call(router, proposal, collateral, amount) ==
    [target |-> router, value |-> 0,
     data |-> [selector |-> "mergePositions", proposal |-> proposal,
               collateral |-> collateral, amount |-> amount]]

encode_swapr_exact_in_call(router, token_in, token_out, amount_in, amount_out_min, recipient) ==
    [target |-> router, value |-> 0,
     data |-> [selector |-> "exactInputSingle", token_in |-> token_in,
               token_out |-> token_out, recipient |-> recipient,
               amount_in |-> amount_in, amount_out_min |-> amount_out_min,
               sqrtPriceLimitX96 |-> 0]]

encode_swapr_exact_out_call(router, token_in, token_out, amount_out, amount_in_max, recipient) ==
    [target |-> router, value |-> 0,
     data |-> [selector |-> "exactOutputSingle", token_in |-> token_in,
               token_out |-> token_out, recipient |-> recipient,
               amount_out |-> amount_out, amount_in_max |-> amount_in_max,
               sqrtPriceLimitX96 |-> 0]]

encode_balancer_swap_call(vault, pool_id, asset_in, asset_out, amount, sender, recipient) ==
    [target |-> vault, value |-> 0,
     data |-> [selector |-> "swap", pool_id |-> pool_id, kind |-> 0,
               asset_in |-> asset_in, asset_out |-> asset_out, amount |-> amount,
               sender |-> sender, recipient |-> recipient, limit |-> 0]]

(***************************************************************************)
(* Liquidation Planner (bundle_helpers.py)                                 *)
(***************************************************************************)
calculate_liquidation_amount(yes_amount, no_amount, yes_usd, no_usd) ==
    LET yes_remaining == IF yes_amount < no_amount THEN yes_usd - yes_amount ELSE 0
        no_remaining == IF no_amount < yes_amount THEN no_usd - no_amount ELSE 0
    IN  IF yes_remaining > no_remaining THEN [amount |-> yes_remaining, token_type |-> "YES"]
        ELSE IF no_remaining > yes_remaining THEN [amount |-> no_remaining, token_type |-> "NO"]
        ELSE [amount |-> 0, token_type |-> "NONE"]

build_liquidation_calls(liquidation_amount, token_type, swapr_router, futarchy_router) ==
    IF token_type = "YES" THEN
        << encode_approval_call("SDAI_YES", swapr_router, liquidation_amount),
           encode_swapr_exact_in_call(swapr_router, "SDAI_YES", "SDAI_TOKEN",
                                      liquidation_amount, 0, "FUTARCHY_BATCH_EXECUTOR") >>
    ELSE IF token_type = "NO" THEN
        LET estimated_sdai == TimesOnePointOne(liquidation_amount)
        IN  << encode_approval_call("SDAI_TOKEN", swapr_router, estimated_sdai),
               encode_swapr_exact_out_call(swapr_router, "SDAI_TOKEN", "SDAI_YES",
                                           liquidation_amount, estimated_sdai,
                                           "FUTARCHY_BATCH_EXECUTOR"),
               encode_approval_call("SDAI_YES", futarchy_router, liquidation_amount),
               encode_approval_call("SDAI_NO", futarchy_router, liquidation_amount),
               encode_merge_positions_call(futarchy_router, "FUTARCHY_PROPOSAL",
                                           "SDAI_TOKEN", liquidation_amount) >>
    ELSE << >>

(***************************************************************************)
(* Bundle construction (buy_cond_eip7702.py).  simulation_results is a     *)
(* dict: a function from its keys; None and the empty dict are falsy.      *)
(***************************************************************************)
Truthy(d) == d # None /\ DOMAIN d # {}

HasKey(d, k) == d # None /\ k \in DOMAIN d

\* LegSwapCalls approving only the input amount for the exact-output swaps
LegSwapCalls_ApproveAmount(amt, sim) ==
    IF Truthy(sim) /\ HasKey(sim, "target_amount") THEN
        LET target == sim["target_amount"]
            max_input == TimesOnePointOne(amt)
        IN  << encode_approval_call("SDAI_YES", "SWAPR_ROUTER", amt),
               encode_swapr_exact_out_call("SWAPR_ROUTER", "SDAI_YES", "COMPANY_YES",
                                           target, max_input, "account"),
               encode_approval_call("SDAI_NO", "SWAPR_ROUTER", amt),
               encode_swapr_exact_out_call("SWAPR_ROUTER", "SDAI_NO", "COMPANY_NO",
                                           target, max_input, "account") >>
    ELSE
        << encode_approval_call("SDAI_YES", "SWAPR_ROUTER", amt),
           encode_swapr_exact_in_call("SWAPR_ROUTER", "SDAI_YES", "COMPANY_YES", amt, 0, "account"),
           encode_approval_call("SDAI_NO", "SWAPR_ROUTER", amt),
           encode_swapr_exact_in_call("SWAPR_ROUTER", "SDAI_NO", "COMPANY_NO", amt, 0, "account") >>

LegSwapCalls(amt, sim) ==
    IF Truthy(sim) /\ HasKey(sim, "target_amount") THEN
        LET target == sim["target_amount"]
            max_input == TimesOnePointOne(amt)
        IN  << encode_approval_call("SDAI_YES", "SWAPR_ROUTER", max_input),
               encode_swapr_exact_out_call("SWAPR_ROUTER", "SDAI_YES", "COMPANY_YES",
                                           target, max_input, "account"),
               encode_approval_call("SDAI_NO", "SWAPR_ROUTER", max_input),
               encode_swapr_exact_out_call("SWAPR_ROUTER", "SDAI_NO", "COMPANY_NO",
                                           target, max_input, "account") >>
    ELSE
        << encode_approval_call("SDAI_YES", "SWAPR_ROUTER", amt),
           encode_swapr_exact_in_call("SWAPR_ROUTER", "SDAI_YES", "COMPANY_YES", amt, 0, "account"),
           encode_approval_call("SDAI_NO", "SWAPR_ROUTER", amt),
           encode_swapr_exact_in_call("SWAPR_ROUTER", "SDAI_NO", "COMPANY_NO", amt, 0, "account") >>

MergeAndSellCalls(sim) ==
    LET merge_amount == IF Truthy(sim) /\ HasKey(sim, "merge_amount")
                        THEN sim["merge_amount"] ELSE 0
    IN  << encode_approval_call("COMPANY_YES", "FUTARCHY_ROUTER", MAX_UINT256),
           encode_approval_call("COMPANY_NO", "FUTARCHY_ROUTER", MAX_UINT256),
           encode_merge_positions_call("FUTARCHY_ROUTER", "FUTARCHY_PROPOSAL",
                                       "COMPANY_TOKEN", merge_amount),
           encode_approval_call("COMPANY_TOKEN", "BALANCER_VAULT", MAX_UINT256),
           encode_balancer_swap_call("BALANCER_VAULT", "BALANCER_POOL_ID", "COMPANY_TOKEN",
                                     "SDAI_TOKEN", merge_amount, "account", "account") >>

\* LiquidationCalls without the test of the amount
LiquidationCalls_NoAmountCheck(sim) ==
    IF Truthy(sim) /\ HasKey(sim, "liquidation")
    THEN build_liquidation_calls(sim["liquidation"].amount, sim["liquidation"].token_type,
                                 "SWAPR_ROUTER", "FUTARCHY_ROUTER")
    ELSE << >>

LiquidationCalls(sim) ==
    IF Truthy(sim) /\ HasKey(sim, "liquidation") /\ sim["liquidation"].amount > 0
    THEN build_liquidation_calls(sim["liquidation"].amount, sim["liquidation"].token_type,
                                 "SWAPR_ROUTER", "FUTARCHY_ROUTER")
    ELSE << >>

build_buy_conditional_bundle(amt, sim) ==
    << encode_approval_call("SDAI_TOKEN", "FUTARCHY_ROUTER", amt),
       encode_split_position_call("FUTARCHY_ROUTER", "FUTARCHY_PROPOSAL", "SDAI_TOKEN", amt) >>
    \o LegSwapCalls(amt, sim) \o MergeAndSellCalls(sim) \o LiquidationCalls(sim)

(***************************************************************************)
(* Result Decoder (bundle_helpers.py).  Returned bytes are kept as their   *)
(* whole 32-byte words plus the count of bytes left over.                  *)
(***************************************************************************)
NoData == [words |-> << >>, tail |-> 0]

Word(w) == [words |-> <<w>>, tail |-> 0]

ByteLen(r) == 32 * Len(r.words) + r.tail

\* decode(['uint256'], r) and decode(['bool'], r) raise on these inputs
Uint256Raises(r) == Len(r.words) = 0

BoolRaises(r) == Len(r.words) = 0 \/ r.words[1] \notin {0, 1}

\* operation names by the substrings the decoder looks for
NamesWithExactIn == {"yes_swap_exact_in", "no_swap_exact_in"}

NamesWithYes == {"yes_to_swapr", "yes_swap_exact_in", "yes_company_to_router",
                 "liquidate_yes_approval", "liquidate_yes_swap",
                 "liquidate_buy_yes_approval", "liquidate_buy_yes",
                 "liquidate_merge_yes_approval"}

NamesWithNo == {"no_to_swapr", "no_swap_exact_in", "no_company_to_router",
                "liquidate_merge_no_approval"}

NamesWithSwap == {"yes_to_swapr", "yes_swap_exact_in", "no_to_swapr", "no_swap_exact_in",
                  "final_swap", "liquidate_yes_swap"}

parse_swap_result(result_bytes, swap_type) ==
    IF ByteLen(result_bytes) = 0 THEN [error |-> "Empty result"]
    ELSE IF Uint256Raises(result_bytes) THEN [error |-> "Failed to decode"]
    ELSE IF swap_type = "exactIn"
         THEN [amount_out |-> result_bytes.words[1], type |-> "exactIn"]
         ELSE [amount_in |-> result_bytes.words[1], type |-> "exactOut"]

\* the entry parse_bundle_results makes for one operation
ParseOperation(op_type, op_name, res) ==
    IF op_type = "approval" THEN
        (IF ByteLen(res) > 0 THEN [success |-> (res.words[1] = 1)] ELSE [success |-> TRUE])
    ELSE IF op_type = "split" THEN [executed |-> TRUE]
    ELSE IF op_type = "swap" THEN
        (IF op_name \in NamesWithExactIn THEN parse_swap_result(res, "exactIn")
         ELSE parse_swap_result(res, "exactOut"))
    ELSE IF op_type = "merge" THEN [executed |-> TRUE]
    ELSE IF op_type = "balancer_swap" THEN
        (IF ByteLen(res) > 0 THEN [amount_out |-> res.words[1]]
         ELSE [error |-> "No result from Balancer"])
    ELSE [raw |-> res]

\* a decode inside the loop that raises; only parse_swap_result catches its own
OperationRaises(op_type, res) ==
    \/ op_type = "approval" /\ ByteLen(res) > 0 /\ BoolRaises(res)
    \/ op_type = "balancer_swap" /\ ByteLen(res) > 0 /\ Uint256Raises(res)

\* operation_map: sequence of <<type, name>>, entry i for bundle index i - 1
parse_bundle_results(results, operation_map) ==
    LET idxs == {i \in 1..Len(operation_map) : i <= Len(results)}
    IN  IF \E i \in idxs : OperationRaises(operation_map[i][1], results[i])
        THEN [error |-> "Failed to parse bundle results"]
        ELSE [n \in {operation_map[i][2] : i \in idxs} |->
                LET i == CHOOSE j \in idxs : operation_map[j][2] = n
                IN  ParseOperation(operation_map[i][1], n, results[i])]

discovery_map ==
    << <<"approval", "sdai_to_router">>, <<"split", "split_sdai">>,
       <<"approval", "yes_to_swapr">>, <<"swap", "yes_swap_exact_in">>,
       <<"approval", "no_to_swapr">>, <<"swap", "no_swap_exact_in">>,
       <<"approval", "yes_company_to_router">>, <<"approval", "no_company_to_router">>,
       <<"merge", "merge_company">>, <<"approval", "company_to_balancer">>,
       <<"balancer_swap", "final_swap">> >>

final_map(liquidation_type) ==
    discovery_map \o
    (IF liquidation_type = "NONE" THEN << >>
     ELSE IF liquidation_type = "YES" THEN
        << <<"approval", "liquidate_yes_approval">>, <<"swap", "liquidate_yes_swap">> >>
     ELSE
        << <<"approval", "liquidate_buy_yes_approval">>, <<"swap", "liquidate_buy_yes">>,
           <<"approval", "liquidate_merge_yes_approval">>,
           <<"approval", "liquidate_merge_no_approval">>,
           <<"merge", "liquidate_merge">> >>)

\* is the dict entry a dict holding the key (the error dict maps 'error' to a string)
EntryHas(parsed, name, key) ==
    /\ name \in DOMAIN parsed
    /\ name # "error"
    /\ key \in DOMAIN parsed[name]

\* the keys are visited in insertion order; with one swap a leg the last match is the only one
extract_swap_outputs(parsed) ==
    LET yes_keys == {k \in DOMAIN parsed : k \in NamesWithYes /\ k \in NamesWithSwap
                                           /\ EntryHas(parsed, k, "amount_out")}
        no_keys == {k \in DOMAIN parsed : k \notin (NamesWithYes \cap NamesWithSwap)
                                          /\ k \in NamesWithNo /\ k \in NamesWithSwap
                                          /\ EntryHas(parsed, k, "amount_out")}
    IN  [yes_amount |-> IF yes_keys = {} THEN 0
                        ELSE parsed[CHOOSE k \in yes_keys : TRUE].amount_out,
         no_amount |-> IF no_keys = {} THEN 0
                       ELSE parsed[CHOOSE k \in no_keys : TRUE].amount_out]

decode_revert_reason(error_data) ==
    IF error_data.len < 4 THEN <<"Unknown error (no data)">>
    ELSE IF error_data.selector = "08c379a0" THEN
        (IF error_data.decodable THEN <<"Error", error_data.text>>
         ELSE <<"Error", "Failed to decode error message">>)
    ELSE IF error_data.selector \in {"1234abcd", "5678ef01", "9abcdef0"} THEN
        <<"Custom Error",
          IF error_data.selector = "1234abcd" THEN "CallFailed"
          ELSE IF error_data.selector = "5678ef01" THEN "InvalidAuthority"
          ELSE "InsufficientBalance">>
    ELSE <<"Unknown error (selector)", error_data.selector>>

(***************************************************************************)
(* The node: what eth_call with the delegation override may answer for a   *)
(* bundle.  Approvals return true, split and merge return nothing, a swap  *)
(* returns one word (an exact-output swap never more than its maximum      *)
(* input), the pool swap possibly nothing.                                 *)
(***************************************************************************)
Amounts == {MaxAmount}

MinProfits == {0, MaxMinProfit}

\* what a leg swap may return; the largest word is above the 10% buffer of the largest amount
LegReturns == {Word(w) : w \in {MaxWord - 2, MaxWord, MaxWord + 2}}

\* what the pool swap may return
PoolReturns == {NoData} \cup {Word(w) : w \in {MaxWord, MaxWord + 1}}

ResultOfCall(call, yes_ret, no_ret, pool_ret) ==
    LET d == call.data
    IN  IF d.selector = "approve" THEN Word(1)
        ELSE IF d.selector \in {"splitPosition", "mergePositions"} THEN NoData
        ELSE IF d.selector = "swap" THEN pool_ret
        ELSE IF d.token_in = "SDAI_NO" THEN no_ret
        ELSE yes_ret

WithinMaxInput(call, ret) ==
    call.data.selector = "exactOutputSingle" /\ ret # NoData
        => ret.words[1] <= call.data.amount_in_max

\* the markets a chain can be in: what the YES leg, the NO leg and the pool return
Markets == [yes : LegReturns, no : LegReturns, pool : PoolReturns]

\* the end-to-end scenario of 0.01 sDAI, in units of 10^12 wei
Scenario ==
    [input |-> 10000, outputA |-> 9850, outputB |-> 9700,
     usedA |-> 9847, usedB |-> 10000, residual |-> 153]

\* the markets of the scenario: the legs return its outputs or its used amounts
ScenarioMarkets ==
    [yes : {Word(Scenario.outputA), Word(Scenario.usedA)},
     no : {Word(Scenario.outputB), Word(Scenario.usedB)},
     pool : {Word(Scenario.input), Word(Scenario.input + Scenario.residual)}]

MarketsFor(amt) == IF amt = Scenario.input THEN ScenarioMarkets ELSE Markets

\* a node that answers the third simulation of a run from another YES market
NodeResults_Drifting(market, calls) ==
    LET yes == IF Len(sim_log) = 3 THEN CHOOSE w \in LegReturns : w # market.yes
               ELSE market.yes
    IN  [i \in 1..Len(calls) |-> ResultOfCall(calls[i], yes, market.no, market.pool)]

\* what the calls return when executed on a chain with these markets
NodeResults(market, calls) ==
    [i \in 1..Len(calls) |-> ResultOfCall(calls[i], market.yes, market.no, market.pool)]

\* the split debits the account's sDAI
WithinBalance(call, state) ==
    call.data.selector = "splitPosition" => call.data.amount <= state.sdai

\* index (from 1) of the first call that reverts on the chain, 0 when none does
FirstFailing(calls, state) ==
    LET r == NodeResults(state.market, calls)
        bad == { i \in 1..Len(calls) :
                   ~WithinMaxInput(calls[i], r[i]) \/ ~WithinBalance(calls[i], state) }
    IN  IF bad = {} THEN 0 ELSE CHOOSE i \in bad : \A j \in bad : i <= j

\* eth_call at 'latest': the results are those of executing the calls on the chain as it is
SimResults(calls) ==
    IF FirstFailing(calls, chain) = 0 THEN {NodeResults(chain.market, calls)} ELSE {}

RevertData ==
    { [len |-> 0, selector |-> "", decodable |-> FALSE, text |-> ""],
      [len |-> 100, selector |-> "08c379a0", decodable |-> TRUE, text |-> "STF"],
      [len |-> 4, selector |-> "deadbeef", decodable |-> FALSE, text |-> ""] }

(***************************************************************************)
(* dry_run_bundle: the exception that leaves it when eth_call raises       *)
(***************************************************************************)
DryRunError(has_data, error_data) ==
    IF has_data
    THEN [type |-> "Exception", message |-> <<"Dry run failed">> \o decode_revert_reason(error_data)]
    ELSE [type |-> "NodeError", message |-> <<"eth_call failed">>]

Min(a, b) == IF a <= b THEN a ELSE b

SimRequest(phase, calls) ==
    [phase |-> phase, from |-> "account", to |-> "account",
     selector |-> "executeWithResults", calls |-> calls,
     state_overrides |-> [account |-> [code |-> "IMPLEMENTATION"]],
     block |-> "latest", at |-> chain, failed_at |-> 0, result |-> None]

\* the bytes eth_call returned for the request sent last
WithResult(log, r) == [log EXCEPT ![Len(log)].result = r]

(***************************************************************************)
(* simulate_buy_conditional_bundle, one action for each round trip         *)
(***************************************************************************)
\* step 1: build the exact-in bundle and send it to the node
StartDiscovery ==
    /\ pc = "start"
    /\ bundle' = build_buy_conditional_bundle(amount_wei, None)
    /\ sim_log' = Append(sim_log, SimRequest("Discovery", bundle'))
    /\ pc' = "discovery_call"
    /\ UNCHANGED <<amount_wei, broadcast, min_profit, parsed_discovery, parsed_balanced,
                   parsed_final, yes_out, no_out, target_amount, yes_used, no_used,
                   liquidation, simulation_results, builder_calls, tx_sent, error, result>>
    /\ UNCHANGED <<chain, otherVars>>

\* step 1 sent to the chain as a transaction instead of an eth_call
DiscoveryReturns_Mined ==
    /\ pc = "discovery_call"
    /\ \E r \in SimResults(bundle) :
        LET parsed == parse_bundle_results(r, discovery_map)
            outs == extract_swap_outputs(parsed)
        IN  /\ sim_log' = WithResult(sim_log, r)
            /\ parsed_discovery' = parsed
            /\ yes_out' = outs.yes_amount
            /\ no_out' = outs.no_amount
    /\ chain' = [chain EXCEPT !.nonce = @ + 2, !.code = "IMPLEMENTATION", !.sdai = @ - amount_wei]
    /\ pc' = "balance"
    /\ UNCHANGED <<amount_wei, broadcast, min_profit, bundle, parsed_balanced,
                   parsed_final, target_amount, yes_used, no_used,
                   liquidation, simulation_results, builder_calls, tx_sent, error, result>>
    /\ UNCHANGED otherVars

\* step 1: the results arrive and are decoded
DiscoveryReturns ==
    /\ pc = "discovery_call"
    /\ \E r \in SimResults(bundle) :
        LET parsed == parse_bundle_results(r, discovery_map)
            outs == extract_swap_outputs(parsed)
        IN  /\ sim_log' = WithResult(sim_log, r)
            /\ parsed_discovery' = parsed
            /\ yes_out' = outs.yes_amount
            /\ no_out' = outs.no_amount
    /\ pc' = "balance"
    /\ UNCHANGED <<amount_wei, broadcast, min_profit, bundle, parsed_balanced,
                   parsed_final, target_amount, yes_used, no_used,
                   liquidation, simulation_results, builder_calls, tx_sent, error, result>>
    /\ UNCHANGED <<chain, otherVars>>

\* BalanceTarget taking the larger output
BalanceTarget_Max(y, n) == IF y >= n THEN y ELSE n

BalanceTarget(y, n) == Min(y, n)

\* StartBalance not waiting for the results of step 1
StartBalance_Early ==
    /\ pc = "discovery_call"
    /\ target_amount' = BalanceTarget(yes_out, no_out)
    /\ bundle' = build_buy_conditional_bundle(amount_wei,
                    [target_amount |-> target_amount', merge_amount |-> target_amount'])
    /\ sim_log' = Append(sim_log, SimRequest("Balance", bundle'))
    /\ pc' = "balance_call"
    /\ UNCHANGED <<amount_wei, broadcast, min_profit, parsed_discovery, parsed_balanced,
                   parsed_final, yes_out, no_out, yes_used, no_used,
                   liquidation, simulation_results, builder_calls, tx_sent, error, result>>
    /\ UNCHANGED <<chain, otherVars>>

\* step 2: build the exact-out bundle on min(YES, NO) and send it to the node
StartBalance ==
    /\ pc = "balance"
    /\ target_amount' = BalanceTarget(yes_out, no_out)
    /\ bundle' = build_buy_conditional_bundle(amount_wei,
                    [target_amount |-> target_amount', merge_amount |-> target_amount'])
    /\ sim_log' = Append(sim_log, SimRequest("Balance", bundle'))
    /\ pc' = "balance_call"
    /\ UNCHANGED <<amount_wei, broadcast, min_profit, parsed_discovery, parsed_balanced,
                   parsed_final, yes_out, no_out, yes_used, no_used,
                   liquidation, simulation_results, builder_calls, tx_sent, error, result>>
    /\ UNCHANGED <<chain, otherVars>>

\* the amount a leg used: the decoded amount_in when the entry has one, else the full amount
UsedAmount(parsed, name, default) ==
    IF EntryHas(parsed, name, "amount_in") THEN parsed[name].amount_in ELSE default

\* step 2: the results arrive, are decoded with the map of step 1, and the liquidation is planned
BalanceReturns ==
    /\ pc = "balance_call"
    /\ \E r \in SimResults(bundle) :
        LET parsed == parse_bundle_results(r, discovery_map)
            yu == UsedAmount(parsed, "yes_swap_exact_in", amount_wei)
            nu == UsedAmount(parsed, "no_swap_exact_in", amount_wei)
        IN  /\ sim_log' = WithResult(sim_log, r)
            /\ parsed_balanced' = parsed
            /\ yes_used' = yu
            /\ no_used' = nu
            /\ liquidation' = calculate_liquidation_amount(target_amount, target_amount, yu, nu)
    /\ pc' = "final"
    /\ UNCHANGED <<amount_wei, broadcast, min_profit, bundle, parsed_discovery,
                   parsed_final, yes_out, no_out, target_amount,
                   simulation_results, builder_calls, tx_sent, error, result>>
    /\ UNCHANGED <<chain, otherVars>>

final_simulation ==
    [target_amount |-> target_amount, merge_amount |-> target_amount,
     liquidation |-> liquidation]

\* step 3: build the bundle with the liquidation calls and send it to the node
StartFinal ==
    /\ pc = "final"
    /\ bundle' = build_buy_conditional_bundle(amount_wei, final_simulation)
    /\ sim_log' = Append(sim_log, SimRequest("Finalize", bundle'))
    /\ pc' = "final_call"
    /\ UNCHANGED <<amount_wei, broadcast, min_profit, parsed_discovery, parsed_balanced,
                   parsed_final, yes_out, no_out, target_amount, yes_used, no_used,
                   liquidation, simulation_results, builder_calls, tx_sent, error, result>>
    /\ UNCHANGED <<chain, otherVars>>

\* expected sDAI out of the final simulation
FinalSdaiOut(parsed, liq) ==
    (IF EntryHas(parsed, "final_swap", "amount_out") THEN parsed["final_swap"].amount_out ELSE 0)
    + (IF liq.token_type = "YES" /\ "liquidate_yes_swap" \in DOMAIN parsed
       THEN (IF EntryHas(parsed, "liquidate_yes_swap", "amount_out")
             THEN parsed["liquidate_yes_swap"].amount_out ELSE 0)
       ELSE IF liq.token_type = "NO" /\ "liquidate_merge" \in DOMAIN parsed
       THEN liq.amount
       ELSE 0)

\* w3.from_wei rejects a negative number of wei with a ValueError
FromWeiRaises(number) == number < 0

\* step 3: the results arrive; the net is computed and printed, the dict returned
FinalReturns ==
    /\ pc = "final_call"
    /\ \E r \in SimResults(bundle) :
        LET parsed == parse_bundle_results(r, final_map(liquidation.token_type))
            out == FinalSdaiOut(parsed, liquidation)
            net == out - amount_wei
        IN  /\ sim_log' = WithResult(sim_log, r)
            /\ parsed_final' = parsed
            /\ IF FromWeiRaises(net)
               THEN /\ error' = [type |-> "ValueError",
                                 message |-> <<"value must be between 1 and 2**256 - 1">>]
                    /\ pc' = "aborted"
                    /\ UNCHANGED simulation_results
               ELSE /\ simulation_results' =
                          [target_amount |-> target_amount, yes_output |-> yes_out,
                           no_output |-> no_out, liquidation |-> liquidation,
                           sdai_out |-> out, sdai_net |-> net,
                           expected_profit |-> [wei |-> net, unit |-> "ether"]]
                    /\ pc' = "simulated"
                    /\ UNCHANGED error
    /\ UNCHANGED <<amount_wei, broadcast, min_profit, bundle, parsed_discovery,
                   parsed_balanced, yes_out, no_out, target_amount, yes_used, no_used,
                   liquidation, builder_calls, tx_sent, result>>
    /\ UNCHANGED <<chain, otherVars>>

\* SimulationFails with the exception caught and the run going on to the next step
SimulationFails_Swallowed ==
    /\ pc \in {"discovery_call", "balance_call", "final_call"}
    /\ \/ \E d \in RevertData : error' = DryRunError(TRUE, d)
       \/ error' = DryRunError(FALSE, None)
    /\ pc' = IF pc = "discovery_call" THEN "balance" ELSE "aborted"
    /\ UNCHANGED <<amount_wei, broadcast, min_profit, bundle, sim_log, parsed_discovery,
                   parsed_balanced, parsed_final, yes_out, no_out, target_amount, yes_used,
                   no_used, liquidation, simulation_results, builder_calls, tx_sent, result>>
    /\ UNCHANGED <<chain, otherVars>>

\* any of the three eth_calls raises: the exception leaves simulate and the entry point
SimulationFails ==
    /\ pc \in {"discovery_call", "balance_call", "final_call"}
    /\ \/ /\ FirstFailing(bundle, chain) # 0          \* a call reverts: the error has data
          /\ \E d \in RevertData : error' = DryRunError(TRUE, d)
          /\ sim_log' = [sim_log EXCEPT ![Len(sim_log)].failed_at = FirstFailing(bundle, chain)]
       \/ /\ error' = DryRunError(FALSE, None)         \* the request itself fails
          /\ UNCHANGED sim_log
    /\ pc' = "aborted"
    /\ UNCHANGED <<amount_wei, broadcast, min_profit, bundle, parsed_discovery,
                   parsed_balanced, parsed_final, yes_out, no_out, target_amount, yes_used,
                   no_used, liquidation, simulation_results, builder_calls, tx_sent, result>>
    /\ UNCHANGED <<chain, otherVars>>

\* other accounts trade between two requests of the run: the markets move
ChainMoves ==
    /\ pc \in {"balance", "final"}
    /\ \E m \in MarketsFor(amount_wei) \ {chain.market} :
          chain' = [chain EXCEPT !.market = m]
    /\ UNCHANGED <<pc, amount_wei, broadcast, min_profit, bundle, sim_log, parsed_discovery,
                   parsed_balanced, parsed_final, yes_out, no_out, target_amount, yes_used,
                   no_used, liquidation, simulation_results, builder_calls, tx_sent, error,
                   result>>
    /\ UNCHANGED otherVars

(***************************************************************************)
(* EIP7702TransactionBuilder (its module is not among the sources): calls  *)
(* are appended in order and the transaction carries all of them.          *)
(***************************************************************************)
add_call(calls, call) == Append(calls, call)

RECURSIVE AddCalls(_, _)
AddCalls(calls, more) ==
    IF more = << >> THEN calls ELSE AddCalls(add_call(calls, Head(more)), Tail(more))

\* a builder that leaves the transaction without its authorization
build_transaction_Unauthorized(calls, sender) ==
    [type |-> 2, to |-> sender, calls |-> calls, authorizationList |-> << >>]

build_transaction(calls, sender) ==
    [type |-> 4, to |-> sender, calls |-> calls, authorizationList |-> <<"authorization">>]

(***************************************************************************)
(* buy_conditional_bundled after the simulation                            *)
(***************************************************************************)
\* the bundle for the transaction is built from the dict the simulation returned
BuildFinalBundle ==
    /\ pc = "simulated"
    /\ bundle' = build_buy_conditional_bundle(amount_wei, simulation_results)
    /\ builder_calls' = AddCalls(<< >>, bundle')
    /\ pc' = "built"
    /\ UNCHANGED <<amount_wei, broadcast, min_profit, sim_log, parsed_discovery,
                   parsed_balanced, parsed_final, yes_out, no_out, target_amount, yes_used,
                   no_used, liquidation, simulation_results, tx_sent, error, result>>
    /\ UNCHANGED <<chain, otherVars>>

\* broadcast: build, sign and send the transaction
Broadcast ==
    /\ pc = "built"
    /\ broadcast
    /\ tx_sent' = Append(tx_sent, build_transaction(builder_calls, "account"))
    /\ pc' = "sent"
    /\ UNCHANGED <<amount_wei, broadcast, min_profit, bundle, sim_log, parsed_discovery,
                   parsed_balanced, parsed_final, yes_out, no_out, target_amount, yes_used,
                   no_used, liquidation, simulation_results, builder_calls, error, result>>
    /\ UNCHANGED <<chain, otherVars>>

\* sDAI the pool swap of a mined bundle pays: nothing for an amount of 0 or no data
PoolProceeds(calls, market) ==
    LET swaps == { i \in 1..Len(calls) : calls[i].data.selector = "swap" /\ calls[i].data.amount > 0 }
    IN  IF swaps = {} \/ market.pool = NoData THEN 0 ELSE market.pool.words[1]

\* the chain after the transaction is mined: the nonce is used by the transaction and by
\* its authorization, the account's code is the delegation, the calls move sDAI when they succeed
MinedOn(state, tx, amt, status) ==
    [state EXCEPT !.nonce = @ + 2, !.code = "IMPLEMENTATION",
                  !.sdai = IF status = 1 THEN @ - amt + PoolProceeds(tx.calls, state.market) ELSE @]

\* the receipt arrives
Receipt ==
    /\ pc = "sent"
    /\ \E status \in {0, 1} :
        /\ result' = [status |-> IF status = 1 THEN "success" ELSE "failed", sdai_net |-> 0]
        /\ chain' = MinedOn(chain, tx_sent[Len(tx_sent)], amount_wei, status)
    /\ pc' = "done"
    /\ UNCHANGED <<amount_wei, broadcast, min_profit, bundle, sim_log, parsed_discovery,
                   parsed_balanced, parsed_final, yes_out, no_out, target_amount, yes_used,
                   no_used, liquidation, simulation_results, builder_calls, tx_sent, error>>
    /\ UNCHANGED otherVars

\* no broadcast: the simulation is reported
ReturnSimulated ==
    /\ pc = "built"
    /\ ~broadcast
    /\ result' = [status |-> "simulated", sdai_net |-> simulation_results.sdai_net]
    /\ pc' = "done"
    /\ UNCHANGED <<amount_wei, broadcast, min_profit, bundle, sim_log, parsed_discovery,
                   parsed_balanced, parsed_final, yes_out, no_out, target_amount, yes_used,
                   no_used, liquidation, simulation_results, builder_calls, tx_sent, error>>
    /\ UNCHANGED <<chain, otherVars>>

(***************************************************************************)
(* The pure functions applied to drawn arguments                           *)
(***************************************************************************)
FnAmounts == {a \in 0..MaxFnAmount : a % 10 = 0}

LiquidationTypes == {"YES", "NO", "NONE"}

\* the dicts build_buy_conditional_bundle is called with
FnSimulationResults ==
    {None}
    \cup { [target_amount |-> t, merge_amount |-> t] : t \in FnAmounts }
    \cup { [target_amount |-> t, merge_amount |-> t,
            liquidation |-> [amount |-> a, token_type |-> ty]] :
            t \in {MaxFnAmount}, a \in FnAmounts, ty \in LiquidationTypes }

FnIdle == fn_pc = "idle" /\ fn_args = None /\ fn_liq = None /\ fn_bundle = << >>

ApplyPlanner ==
    /\ fn_pc = "planner"
    /\ fn_liq' = calculate_liquidation_amount(fn_args.yes_amount, fn_args.no_amount,
                                              fn_args.yes_used, fn_args.no_used)
    /\ fn_bundle' = build_liquidation_calls(fn_liq'.amount, fn_liq'.token_type,
                                            "SWAPR_ROUTER", "FUTARCHY_ROUTER")
    /\ fn_pc' = "planned"
    /\ UNCHANGED <<fn_args, runVars, capVars, scriptVars, botVars, toolVars>>

ApplyBuild ==
    /\ fn_pc = "build"
    /\ fn_bundle' = build_buy_conditional_bundle(fn_args.amount, fn_args.simulation_results)
    /\ fn_pc' = "built"
    /\ UNCHANGED <<fn_args, fn_liq, runVars, capVars, scriptVars, botVars, toolVars>>

(***************************************************************************)
(* The 10% buffer on amounts with 18 decimals                              *)
(***************************************************************************)
CapIdle == cap_pc = "idle" /\ cap_amount = << >> /\ cap_max_input = << >>

ComputeMaxInput ==
    /\ cap_pc = "start"
    /\ cap_max_input' = TimesOnePointOneBig(cap_amount)
    /\ cap_pc' = "done"
    /\ UNCHANGED <<cap_amount, runVars, fnVars, scriptVars, botVars, toolVars>>

(***************************************************************************)
(* The scripts of scripts/ that build a type-4 transaction by hand         *)
(* (debug_eip7702_transaction.py, test_eip7702_basic.py) and the script    *)
(* that sends the complete bundle (buy_cond_complete_eip7702.py)           *)
(***************************************************************************)
HandBuilt == {"debug_eip7702_transaction", "test_basic_eip7702"}

\* an authorization signed over the nonce of the transaction itself
Authorization_SameNonce(prog, nonce) ==
    [chainId |-> "chain_id",
     address |-> IF prog = "debug_eip7702_transaction" THEN "IMPLEMENTATION_ADDRESS"
                 ELSE "PECTRA_WRAPPER",
     nonce |-> nonce]

\* auth = {chainId, address, nonce: nonce + 1}
Authorization(prog, nonce) ==
    [chainId |-> "chain_id",
     address |-> IF prog = "debug_eip7702_transaction" THEN "IMPLEMENTATION_ADDRESS"
                 ELSE "PECTRA_WRAPPER",
     nonce |-> nonce + 1]

\* tx = {type: 4, nonce, to: account.address, data, authorizationList: [auth_dict]}
SelfTransaction(prog, nonce, auth) ==
    [type |-> 4, nonce |-> nonce, to |-> "account", value |-> 0,
     data |-> IF prog = "debug_eip7702_transaction" THEN "execute10(empty)" ELSE "owner()",
     authorizationList |-> <<auth>>]

\* int(n * 0.95)
TimesPoint95(n) == BigToInt(IntOfFloat(FloatMul(FloatOfInt(IntToBig(n)), FLOAT_0_95)))

\* build_working_swapr_call(token_in, token_out, amount_in, recipient, "IN")
build_working_swapr_call(token_in, token_out, amount_in, recipient) ==
    [target |-> "SWAPR_ROUTER", value |-> 0,
     data |-> [selector |-> "exactInputSingle", token_in |-> token_in,
               token_out |-> token_out, recipient |-> recipient,
               amount_in |-> amount_in, amount_out_min |-> 0,
               sqrtPriceLimitX96 |-> 0]]

\* the calls execute_buy_conditional_bundle constructs, steps 1 to 11
CompleteCalls(amt, skip_balancer, pool_id_set) ==
    LET merge_amount == TimesPoint95(amt)
        flow == << encode_approval_call("SDAI_TOKEN", "FUTARCHY_ROUTER", amt),
                   encode_split_position_call("FUTARCHY_ROUTER", "FUTARCHY_PROPOSAL",
                                              "SDAI_TOKEN", amt),
                   encode_approval_call("SDAI_YES", "SWAPR_ROUTER", amt),
                   build_working_swapr_call("SDAI_YES", "COMPANY_YES", amt, "account"),
                   encode_approval_call("SDAI_NO", "SWAPR_ROUTER", amt),
                   build_working_swapr_call("SDAI_NO", "COMPANY_NO", amt, "account"),
                   encode_approval_call("COMPANY_YES", "FUTARCHY_ROUTER", MAX_UINT256),
                   encode_approval_call("COMPANY_NO", "FUTARCHY_ROUTER", MAX_UINT256),
                   encode_merge_positions_call("FUTARCHY_ROUTER", "FUTARCHY_PROPOSAL",
                                               "COMPANY_TOKEN", merge_amount) >>
        sale == << encode_approval_call("COMPANY_TOKEN", "BALANCER_VAULT", merge_amount),
                   encode_balancer_swap_call("BALANCER_VAULT", "BALANCER_POOL_ID",
                                             "COMPANY_TOKEN", "SDAI_TOKEN", merge_amount,
                                             "account", "account") >>
    IN  IF ~skip_balancer /\ pool_id_set THEN flow \o sale ELSE flow

\* calls[:10]
FirstCalls(calls) == SubSeq(calls, 1, IF Len(calls) < MAX_CALLS THEN Len(calls) ELSE MAX_CALLS)

ScriptIdle ==
    /\ s_pc = "idle" /\ s_prog = None /\ s_args = None /\ s_chain = None
    /\ s_nonce = 0 /\ s_auth = None /\ s_calls = << >> /\ s_tx = None
    /\ s_sent = << >> /\ s_ret = None

\* nonce = w3.eth.get_transaction_count(account.address)
ReadNonce ==
    /\ s_pc = "start" /\ s_prog \in HandBuilt
    /\ s_nonce' = s_chain.nonce
    /\ s_pc' = "authorize"
    /\ UNCHANGED <<s_prog, s_args, s_chain, s_auth, s_calls, s_tx, s_sent, s_ret,
                   runVars, fnVars, capVars, botVars, toolVars>>

\* account.sign_authorization(auth), or the exception it raises
SignAuthorization ==
    /\ s_pc = "authorize"
    /\ \/ /\ s_auth' = Authorization(s_prog, s_nonce)
          /\ s_pc' = "build"
          /\ UNCHANGED s_ret
       \/ /\ s_pc' = "done" /\ s_ret' = [raised |-> "Exception"]
          /\ UNCHANGED s_auth
    /\ UNCHANGED <<s_prog, s_args, s_chain, s_nonce, s_calls, s_tx, s_sent,
                   runVars, fnVars, capVars, botVars, toolVars>>

BuildSelfTransaction ==
    /\ s_pc = "build" /\ s_prog \in HandBuilt
    /\ s_tx' = SelfTransaction(s_prog, s_nonce, s_auth)
    /\ s_pc' = "send"
    /\ UNCHANGED <<s_prog, s_args, s_chain, s_nonce, s_auth, s_calls, s_sent, s_ret,
                   runVars, fnVars, capVars, botVars, toolVars>>

\* sdai_balance < amount_wei: the script returns False
CheckBalance ==
    /\ s_pc = "start" /\ s_prog = "execute_buy_conditional_bundle"
    /\ IF s_chain.sdai < s_args.amount_wei
         THEN s_pc' = "done" /\ s_ret' = [value |-> FALSE]
         ELSE s_pc' = "calls" /\ UNCHANGED s_ret
    /\ UNCHANGED <<s_prog, s_args, s_chain, s_nonce, s_auth, s_calls, s_tx, s_sent,
                   runVars, fnVars, capVars, botVars, toolVars>>

ConstructCalls ==
    /\ s_pc = "calls"
    /\ s_calls' = CompleteCalls(s_args.amount_wei, s_args.skip_balancer, s_args.pool_id_set)
    /\ s_pc' = "build"
    /\ UNCHANGED <<s_prog, s_args, s_chain, s_nonce, s_auth, s_tx, s_sent, s_ret,
                   runVars, fnVars, capVars, botVars, toolVars>>

\* for call in calls[:10]: builder.add_call(...); tx = builder.build_transaction(...)
BuildBundleTransaction ==
    /\ s_pc = "build" /\ s_prog = "execute_buy_conditional_bundle"
    /\ s_tx' = build_transaction(AddCalls(<< >>, FirstCalls(s_calls)), "account")
    /\ s_pc' = "send"
    /\ UNCHANGED <<s_prog, s_args, s_chain, s_nonce, s_auth, s_calls, s_sent, s_ret,
                   runVars, fnVars, capVars, botVars, toolVars>>

\* w3.eth.send_raw_transaction, or the exception it raises
SendRaw ==
    /\ s_pc = "send"
    /\ \/ /\ s_sent' = Append(s_sent, s_tx)
          /\ s_pc' = "receipt"
          /\ UNCHANGED s_ret
       \/ /\ s_pc' = "done" /\ s_ret' = [raised |-> "Exception"]
          /\ UNCHANGED s_sent
    /\ UNCHANGED <<s_prog, s_args, s_chain, s_nonce, s_auth, s_calls, s_tx,
                   runVars, fnVars, capVars, botVars, toolVars>>

\* w3.eth.wait_for_transaction_receipt and the status of the receipt
ScriptReceipt ==
    /\ s_pc = "receipt"
    /\ \E status \in {0, 1} :
          \* mined: the transaction and its authorization each consume a nonce
          /\ s_chain' = [s_chain EXCEPT !.nonce = @ + 2, !.code = "delegated"]
          /\ s_ret' = IF s_prog = "execute_buy_conditional_bundle"
                         THEN [value |-> status = 1] ELSE None
    /\ s_pc' = "done"
    /\ UNCHANGED <<s_prog, s_args, s_nonce, s_auth, s_calls, s_tx, s_sent,
                   runVars, fnVars, capVars, botVars, toolVars>>


(***************************************************************************)
(* The bots that send a run's transactions one after another               *)
(* (simple_bot.run_once, light_bot.buy_conditional_only) and their loops   *)
(***************************************************************************)
ReadEvent(n) == [kind |-> "read", nonce |-> n, ok |-> TRUE]
SendEvent(n, ok) == [kind |-> "send", nonce |-> n, ok |-> ok]

BotIdle ==
    /\ b_pc = "idle" /\ b_prog = None /\ b_len = 0 /\ b_account = None
    /\ b_nonce = 0 /\ b_i = 0 /\ b_runs = 0 /\ b_log = << >>

\* nonce = w3.eth.get_transaction_count(acct.address), once for the run
BotReadNonce ==
    /\ b_pc = "loop" /\ b_runs < MaxRuns
    /\ b_nonce' = b_account.nonce
    /\ b_i' = 0
    /\ b_runs' = b_runs + 1
    /\ b_log' = Append(b_log, ReadEvent(b_account.nonce))
    /\ b_pc' = "sending"
    /\ UNCHANGED <<b_prog, b_len, b_account, runVars, fnVars, capVars, scriptVars, toolVars>>

\* send_tenderly_tx_onchain(tx, nonce=nonce + i) returns a hash
BotSend ==
    /\ b_pc = "sending" /\ b_i < b_len
    /\ b_log' = Append(b_log, SendEvent(b_nonce + b_i, TRUE))
    /\ b_i' = b_i + 1
    /\ UNCHANGED <<b_pc, b_prog, b_len, b_account, b_nonce, b_runs,
                   runVars, fnVars, capVars, scriptVars, toolVars>>

\* a bot that sends the next transaction of the run after a failed broadcast
BotSendFails_Retry ==
    /\ b_pc = "sending" /\ b_i < b_len
    /\ b_log' = Append(b_log, SendEvent(b_nonce + b_i, FALSE))
    /\ UNCHANGED <<b_pc, b_i, b_prog, b_len, b_account, b_nonce, b_runs,
                   runVars, fnVars, capVars, scriptVars, toolVars>>

\* send_tenderly_tx_onchain raises: the run ends, the loop prints and sleeps
BotSendFails ==
    /\ b_pc = "sending" /\ b_i < b_len
    /\ b_log' = Append(b_log, SendEvent(b_nonce + b_i, FALSE))
    /\ b_pc' = "sleep"
    /\ UNCHANGED <<b_i, b_prog, b_len, b_account, b_nonce, b_runs,
                   runVars, fnVars, capVars, scriptVars, toolVars>>

\* simple_bot: all transactions are sent and run_once returns
BotAllSent ==
    /\ b_pc = "sending" /\ b_i = b_len /\ b_prog = "simple_bot"
    /\ b_pc' = "sleep"
    /\ UNCHANGED <<b_i, b_prog, b_len, b_account, b_nonce, b_runs, b_log,
                   runVars, fnVars, capVars, scriptVars, toolVars>>

\* light_bot: the receipts of the bundle are awaited; then the merge
\* transaction, if there is something to merge, or an exception of the parser
BotReceipts ==
    /\ b_pc = "sending" /\ b_i = b_len /\ b_prog = "light_bot"
    /\ b_account' = [b_account EXCEPT !.nonce = b_nonce + b_len]
    /\ b_pc' \in {"merge", "sleep"}
    /\ UNCHANGED <<b_i, b_prog, b_len, b_nonce, b_runs, b_log,
                   runVars, fnVars, capVars, scriptVars, toolVars>>

\* send_tenderly_tx_onchain(merge_tx, nonce=starting_nonce + len(bundle))
BotMerge ==
    /\ b_pc = "merge"
    /\ \E ok \in BOOLEAN :
          /\ b_log' = Append(b_log, SendEvent(b_nonce + b_len, ok))
          /\ b_account' = IF ok THEN [b_account EXCEPT !.nonce = b_nonce + b_len + 1]
                          ELSE b_account
    /\ b_pc' = "sleep"
    /\ UNCHANGED <<b_i, b_prog, b_len, b_nonce, b_runs,
                   runVars, fnVars, capVars, scriptVars, toolVars>>

\* time.sleep(interval): meanwhile the transactions accepted so far are mined in nonce
\* order, all, some or none of them
BotSleep ==
    /\ b_pc = "sleep"
    /\ \E m \in b_account.nonce..(b_account.nonce + Len(b_log)) :
          /\ \A k \in b_account.nonce..(m - 1) :
                \E j \in 1..Len(b_log) : b_log[j] = SendEvent(k, TRUE)
          /\ b_account' = [b_account EXCEPT !.nonce = m]
    /\ b_pc' = "loop"
    /\ UNCHANGED <<b_i, b_prog, b_len, b_nonce, b_runs, b_log,
                   runVars, fnVars, capVars, scriptVars, toolVars>>

(***************************************************************************)
(* Helpers and command-line tools applied to drawn inputs                  *)
(***************************************************************************)
\* parsed = parse_bundle_results(result, op_map)
ApplyDecoder ==
    /\ t_pc = "start" /\ t_prog = "parse_bundle_results"
    /\ t_out' = parse_bundle_results(t_in.results, discovery_map)
    /\ t_pc' = "done"
    /\ UNCHANGED <<t_prog, t_in, t_st, t_log, runVars, fnVars, capVars, scriptVars, botVars>>

\* discover_v5_address: the latest deployments file first, then the environment.
\* A file is its "address" entry ("" when it has none) and whether it can be read.
discover_v5_address(env, files) ==
    LET latest == files[Len(files)]
    IN  IF files # << >> /\ latest.readable /\ latest.address # ""
        THEN [address |-> latest.address, source |-> "deployments"]
        ELSE IF env.FUTARCHY_ARB_EXECUTOR_V5 # ""
        THEN [address |-> env.FUTARCHY_ARB_EXECUTOR_V5, source |-> "env"]
        ELSE IF env.EXECUTOR_V5_ADDRESS # ""
        THEN [address |-> env.EXECUTOR_V5_ADDRESS, source |-> "env"]
        ELSE [address |-> "", source |-> "unresolved"]

\* main: --address if given, else discover_v5_address(); SystemExit without an address
ResolveAddress ==
    /\ t_pc = "start" /\ t_prog = "futarchy_executor"
    /\ LET found == IF t_in.address # ""
                    THEN [address |-> t_in.address, source |-> "cli --address"]
                    ELSE discover_v5_address(t_in.env, t_in.files)
       IN  t_out' = IF found.address = "" THEN [raised |-> "SystemExit"] ELSE found
    /\ t_pc' = "done"
    /\ UNCHANGED <<t_prog, t_in, t_st, t_log, runVars, fnVars, capVars, scriptVars, botVars>>

\* x + y on floats
FloatAdd(x, y) ==
    LET e == Min(x.e, y.e)
        r == Round53(BigAdd(BigShl(x.m, x.e - e), BigShl(y.m, y.e - e)))
    IN  [m |-> r.m, e |-> e + r.e]

\* _eip1559_fees: base_fee is None when the block has no baseFeePerGas or get_block raised;
\* tip, mult and bump are PRIORITY_FEE_WEI, MAX_FEE_MULTIPLIER and MIN_GAS_PRICE_BUMP_WEI
eip1559_fees(base_fee, gas_price, tip, mult, bump) ==
    IF base_fee # None
    THEN [maxFeePerGas |-> base_fee.value * mult + tip, maxPriorityFeePerGas |-> tip]
    ELSE [gasPrice |-> gas_price + bump]

\* calculate_bundle_gas_params(w3): the fees are numerals, 2 gwei * 1.5 being above 2^31
calculate_bundle_gas_params(base_fee, gas_price) ==
    LET base == IF base_fee # None THEN base_fee.value ELSE gas_price
        \* w3.to_wei(2, 'gwei') * priority_multiplier, the multiplier being 1.5
        priority_fee == FloatMul(FloatOfInt(BigMul(IntToBig(2), BigPow10(9))),
                                 [m |-> <<3>>, e |-> 0 - 1])
        \* the literal 1.2 = 0x1.3333333333333p+0
        scaled == FloatMul(FloatOfInt(IntToBig(base)),
                           [m |-> <<819, 819, 819, 819, 19>>, e |-> 0 - 52])
    IN  [gas |-> BUNDLE_GAS,
         maxFeePerGas |-> IntOfFloat(FloatAdd(scaled, priority_fee)),
         maxPriorityFeePerGas |-> IntOfFloat(priority_fee)]

\* the fee fields a transaction is built with
ComputeFees ==
    /\ t_pc = "start" /\ t_prog = "fees"
    /\ t_out' = IF t_in.fn = "_eip1559_fees"
                THEN eip1559_fees(t_in.base_fee, t_in.gas_price, t_in.tip, t_in.mult, t_in.bump)
                ELSE calculate_bundle_gas_params(t_in.base_fee, t_in.gas_price)
    /\ t_pc' = "done"
    /\ UNCHANGED <<t_prog, t_in, t_st, t_log, runVars, fnVars, capVars, scriptVars, botVars>>

\* setup/allowances.py: the (token, spender) pairs approved, each for MAX_UINT256
ALLOWANCES ==
    << <<"SDAI_TOKEN", "SWAPR_ROUTER">>, <<"SDAI_YES", "SWAPR_ROUTER">>,
       <<"SDAI_NO", "SWAPR_ROUTER">>, <<"COMPANY_YES", "SWAPR_ROUTER">>,
       <<"COMPANY_NO", "SWAPR_ROUTER">>, <<"SDAI_TOKEN", "FUTARCHY_ROUTER">>,
       <<"COMPANY_YES", "FUTARCHY_ROUTER">>, <<"COMPANY_NO", "FUTARCHY_ROUTER">>,
       <<"SDAI_YES", "FUTARCHY_ROUTER">>, <<"SDAI_NO", "FUTARCHY_ROUTER">>,
       <<"COMPANY_TOKEN", "BALANCER_ROUTER">> >>

\* send_allowances: the next approval is built, signed and sent, or the node refuses it
\* and the exception of send_raw_transaction leaves the function
SendApproval ==
    /\ t_pc = "start" /\ t_prog = "send_allowances"
    /\ t_st.k <= Len(ALLOWANCES)
    /\ \/ /\ t_log' = Append(t_log, [kind |-> "send", k |-> t_st.k, nonce |-> t_st.nonce,
                                     approval |-> ALLOWANCES[t_st.k], status |-> 1])
          /\ t_pc' = "wait"
          /\ UNCHANGED t_out
       \/ /\ t_out' = [raised |-> "Exception"]
          /\ t_pc' = "done"
          /\ UNCHANGED t_log
    /\ UNCHANGED <<t_prog, t_in, t_st, runVars, fnVars, capVars, scriptVars, botVars>>

\* a loop that goes on after a reverted approval
ApprovalReceipt_Ignored ==
    /\ t_pc = "wait" /\ t_prog = "send_allowances"
    /\ \E status \in {0, 1} :
          t_log' = Append(t_log, [kind |-> "receipt", k |-> t_st.k, nonce |-> t_st.nonce,
                                  approval |-> ALLOWANCES[t_st.k], status |-> status])
    /\ t_st' = [k |-> t_st.k + 1, nonce |-> t_st.nonce + 1]
    /\ t_pc' = IF t_st.k = Len(ALLOWANCES) THEN "done" ELSE "start"
    /\ UNCHANGED <<t_prog, t_in, t_out, runVars, fnVars, capVars, scriptVars, botVars>>

\* the receipt arrives: RuntimeError when the approval reverted, else nonce += 1 and on
ApprovalReceipt ==
    /\ t_pc = "wait" /\ t_prog = "send_allowances"
    /\ \E status \in {0, 1} :
          /\ t_log' = Append(t_log, [kind |-> "receipt", k |-> t_st.k, nonce |-> t_st.nonce,
                                     approval |-> ALLOWANCES[t_st.k], status |-> status])
          /\ IF status # 1
             THEN /\ t_out' = [raised |-> "RuntimeError"]
                  /\ t_pc' = "done"
                  /\ UNCHANGED t_st
             ELSE /\ t_st' = [k |-> t_st.k + 1, nonce |-> t_st.nonce + 1]
                  /\ t_pc' = IF t_st.k = Len(ALLOWANCES) THEN "done" ELSE "start"
                  /\ UNCHANGED t_out
    /\ UNCHANGED <<t_prog, t_in, runVars, fnVars, capVars, scriptVars, botVars>>

\* step 3 of simulate_buy_conditional_bundle for a given liquidation: the final bundle is
\* built and simulated, its results parsed with the final map, the net computed and printed
FinalNet ==
    /\ t_pc = "start" /\ t_prog = "final_net"
    /\ LET sim == [target_amount |-> t_in.target_amount, merge_amount |-> t_in.target_amount,
                   liquidation |-> t_in.liquidation]
           final_bundle == build_buy_conditional_bundle(t_in.amount_wei, sim)
           node == NodeResults(t_in.market, final_bundle)
           final_result == [i \in 1..Len(final_bundle) |->
                              IF i = Len(discovery_map) + 2 THEN Word(t_in.liquidation_swap)
                              ELSE node[i]]
           parsed == parse_bundle_results(final_result,
                                          final_map(t_in.liquidation.token_type))
           sdai_out == FinalSdaiOut(parsed, t_in.liquidation)
           sdai_net == sdai_out - t_in.amount_wei
       IN  t_out' = IF FromWeiRaises(sdai_net) THEN [raised |-> "ValueError"]
                    ELSE [parsed_final |-> parsed, sdai_out |-> sdai_out, sdai_net |-> sdai_net]
    /\ t_pc' = "done"
    /\ UNCHANGED <<t_prog, t_in, t_st, t_log, runVars, fnVars, capVars, scriptVars, botVars>>

\* FundPlan proceeding to the transfers although the confirmation was not given
FundPlan_Unconfirmed ==
    /\ t_pc = "start" /\ t_prog = "fund_erc20"
    /\ LET n == Len(t_in.balances)
           delta == [i \in 1..n |->
                       IF t_in.always_send THEN t_in.target_units
                       ELSE IF t_in.target_units > t_in.balances[i]
                            THEN t_in.target_units - t_in.balances[i] ELSE 0]
           tx_count == Cardinality({i \in 1..n : delta[i] > 0})
           sum[i \in 0..n] == IF i = 0 THEN 0 ELSE sum[i - 1] + delta[i]
           total_units == sum[n]
           gas_budget_wei == IF tx_count <= 0 THEN 0 ELSE t_in.max_fee_wei * tx_count
           sufficient_token == t_in.funder_token >= total_units
           sufficient_gas == t_in.funder_xdai >= gas_budget_wei
           plan == [kind |-> "plan",
                    status |-> [i \in 1..n |-> IF delta[i] = 0 THEN "skip"
                                               ELSE IF t_in.dry_run THEN "planned"
                                               ELSE "pending"]]
       IN  IF n = 0 THEN
                /\ t_out' = [rc |-> 1] /\ t_pc' = "done"
                /\ UNCHANGED <<t_st, t_log>>
           ELSE IF t_in.dry_run THEN
                /\ t_log' = <<plan>>
                /\ t_out' = [rc |-> IF t_in.dry_run THEN 0 ELSE 2]
                /\ t_pc' = "done"
                /\ UNCHANGED t_st
           ELSE IF ~sufficient_token \/ ~sufficient_gas THEN
                /\ t_log' = <<plan>>
                /\ t_out' = [rc |-> 2] /\ t_pc' = "done"
                /\ UNCHANGED t_st
           ELSE /\ t_st' = [k |-> 1, nonce |-> t_in.pending, next |-> t_in.pending,
                            delta |-> delta]
                /\ t_pc' = "transfers"
                /\ UNCHANGED <<t_log, t_out>>
    /\ UNCHANGED <<t_prog, t_in, runVars, fnVars, capVars, scriptVars, botVars>>

\* fund_erc20 up to the transfers: the recipients, the amounts each needs, the funder's
\* balances, the plan file and the early returns; then the pending nonce is read
FundPlan ==
    /\ t_pc = "start" /\ t_prog = "fund_erc20"
    /\ LET n == Len(t_in.balances)
           delta == [i \in 1..n |->
                       IF t_in.always_send THEN t_in.target_units
                       ELSE IF t_in.target_units > t_in.balances[i]
                            THEN t_in.target_units - t_in.balances[i] ELSE 0]
           tx_count == Cardinality({i \in 1..n : delta[i] > 0})
           sum[i \in 0..n] == IF i = 0 THEN 0 ELSE sum[i - 1] + delta[i]
           total_units == sum[n]
           gas_budget_wei == IF tx_count <= 0 THEN 0 ELSE t_in.max_fee_wei * tx_count
           sufficient_token == t_in.funder_token >= total_units
           sufficient_gas == t_in.funder_xdai >= gas_budget_wei
           plan == [kind |-> "plan",
                    status |-> [i \in 1..n |-> IF delta[i] = 0 THEN "skip"
                                               ELSE IF t_in.dry_run THEN "planned"
                                               ELSE "pending"]]
       IN  IF n = 0 THEN
                /\ t_out' = [rc |-> 1] /\ t_pc' = "done"
                /\ UNCHANGED <<t_st, t_log>>
           ELSE IF t_in.dry_run \/ t_in.require_confirm THEN
                /\ t_log' = <<plan>>
                /\ t_out' = [rc |-> IF t_in.dry_run THEN 0 ELSE 2]
                /\ t_pc' = "done"
                /\ UNCHANGED t_st
           ELSE IF ~sufficient_token \/ ~sufficient_gas THEN
                /\ t_log' = <<plan>>
                /\ t_out' = [rc |-> 2] /\ t_pc' = "done"
                /\ UNCHANGED t_st
           ELSE /\ t_st' = [k |-> 1, nonce |-> t_in.pending, next |-> t_in.pending,
                            delta |-> delta]
                /\ t_pc' = "transfers"
                /\ UNCHANGED <<t_log, t_out>>
    /\ UNCHANGED <<t_prog, t_in, runVars, fnVars, capVars, scriptVars, botVars>>

\* one turn of the transfer loop: a recipient that needs nothing is skipped; otherwise the
\* transfer is signed with the local nonce and sent, and the nonce is raised in the finally
\* clause whatever happened.  The node mines or keeps pending a transaction whose nonce is
\* the account's next one; one with a later nonce it queues, and the wait times out.
FundTransfer ==
    /\ t_pc = "transfers" /\ t_prog = "fund_erc20"
    /\ t_st.k <= Len(t_st.delta)
    /\ IF t_st.delta[t_st.k] = 0
       THEN /\ t_st' = [t_st EXCEPT !.k = @ + 1]
            /\ UNCHANGED t_log
       ELSE \E status \in (IF t_st.nonce = t_st.next
                           THEN {"success", "failed", "error: send", "error: timeout"}
                           ELSE {"error: send", "error: timeout"}) :
                LET accepted == status # "error: send"
                IN  /\ t_log' = Append(t_log, [kind |-> "transfer", to |-> t_st.k,
                                               value |-> t_st.delta[t_st.k],
                                               nonce |-> t_st.nonce,
                                               accepted |-> accepted, status |-> status])
                    /\ t_st' = [t_st EXCEPT !.k = @ + 1, !.nonce = @ + 1,
                                            !.next = IF accepted /\ t_st.nonce = t_st.next
                                                     THEN @ + 1 ELSE @]
    /\ UNCHANGED <<t_pc, t_prog, t_in, t_out, runVars, fnVars, capVars, scriptVars, botVars>>

\* after the loop the log is written; 1 is returned if a transfer did not succeed
FundFinish ==
    /\ t_pc = "transfers" /\ t_prog = "fund_erc20"
    /\ t_st.k > Len(t_st.delta)
    /\ t_out' = [rc |-> IF \E i \in 1..Len(t_log) : t_log[i].status # "success"
                        THEN 1 ELSE 0]
    /\ t_log' = Append(t_log, [kind |-> "log", status |-> "success"])
    /\ t_pc' = "done"
    /\ UNCHANGED <<t_prog, t_in, t_st, runVars, fnVars, capVars, scriptVars, botVars>>

\* _pick_yes_cheaper(args): --side-lower ("" when not given) overrides --yes-cheaper
pick_yes_cheaper(args) ==
    IF args.side_lower # "" THEN args.side_lower = "yes" ELSE args.yes_cheaper

\* main with --buy12: no_cheaper = not _pick_yes_cheaper(args) is what _exec_buy12 gets as
\* yes_has_lower_price and puts into the values of the contract call
ExecBuy12 ==
    /\ t_pc = "start" /\ t_prog = "buy12"
    /\ t_out' = IF t_in.amount_in = "" THEN [raised |-> "SystemExit"]
                ELSE LET no_cheaper == ~pick_yes_cheaper(t_in)
                         yes_has_lower_price == no_cheaper
                     IN  [yes_has_lower_price |-> yes_has_lower_price,
                          yes_has_higher_price |-> ~yes_has_lower_price,
                          amount_sdai_in |-> t_in.amount_in]
    /\ t_pc' = "done"
    /\ UNCHANGED <<t_prog, t_in, t_st, t_log, runVars, fnVars, capVars, scriptVars, botVars>>

\* if deadline is None: deadline = int(time.time()) + 600
SwapDeadline(deadline, wall_clock) ==
    IF deadline = None THEN wall_clock + DEADLINE_WINDOW ELSE deadline.value

\* one of the three swap encoders called as the bundle builders call them; the deadline
\* is the word of the encoded parameters that the call records of the model leave out
EncodeSwap ==
    /\ t_pc = "start" /\ t_prog = "encode_swap"
    /\ t_out' =
         [call |-> IF t_in.encoder = "encode_swapr_exact_in_call"
                   THEN encode_swapr_exact_in_call("SWAPR_ROUTER", "SDAI_YES", "COMPANY_YES",
                                                   t_in.amount, 0, "account")
                   ELSE IF t_in.encoder = "encode_swapr_exact_out_call"
                   THEN encode_swapr_exact_out_call("SWAPR_ROUTER", "SDAI_YES", "COMPANY_YES",
                                                    t_in.amount, TimesOnePointOne(t_in.amount),
                                                    "account")
                   ELSE encode_balancer_swap_call("BALANCER_VAULT", "BALANCER_POOL_ID",
                                                  "COMPANY_TOKEN", "SDAI_TOKEN", t_in.amount,
                                                  "account", "account"),
          deadline |-> SwapDeadline(t_in.deadline, t_in.time)]
    /\ t_pc' = "done"
    /\ UNCHANGED <<t_prog, t_in, t_st, t_log, runVars, fnVars, capVars, scriptVars, botVars>>

ToolInputs(prog) ==
    IF prog = "parse_bundle_results" THEN
        \* bundle results for the operations of discovery_map: every operation returned
        \* what it should, or one of them returned nothing, a single byte, or a word that
        \* is not a bool
        LET good == [i \in 1..Len(discovery_map) |->
                        IF discovery_map[i][1] = "approval" THEN Word(1)
                        ELSE IF discovery_map[i][1] \in {"split", "merge"} THEN NoData
                        ELSE Word(MaxWord)]
            odd == {NoData, [words |-> << >>, tail |-> 1], Word(2)}
        IN  { [results |-> good] }
            \cup { [results |-> [good EXCEPT ![i] = b]] :
                       i \in 1..Len(discovery_map), b \in odd }
    ELSE IF prog = "fees" THEN
        \* the function, the base fee of the latest block (None when it reports none),
        \* the node's gas price, and the three settings of the environment
        [fn : {"_eip1559_fees", "calculate_bundle_gas_params"},
         base_fee : {None} \cup {[value |-> b] : b \in 0..MaxFee},
         gas_price : {1, MaxFee}, tip : {1, 2}, mult : {2, 3}, bump : {1, 2}]
    ELSE IF prog = "send_allowances" THEN
        \* the account's transaction count when the function starts
        [nonce : 0..MaxNonce]
    ELSE IF prog = "buy12" THEN
        \* --side-lower, --yes-cheaper and --amount-in as given on the command line
        [side_lower : {"", "yes", "no"}, yes_cheaper : BOOLEAN, amount_in : {"", "0.01"}]
    ELSE IF prog = "final_net" THEN
        \* the liquidation, what the pool returns and what the liquidation swap returns
        [amount_wei : {MaxAmount - 2}, target_amount : {MaxAmount - 2},
         liquidation : {[amount |-> 0, token_type |-> "NONE"]}
                       \cup [amount : {2, 3}, token_type : {"YES", "NO"}],
         market : [yes : {Word(MaxWord - 2)}, no : {Word(MaxWord - 2)}, pool : PoolReturns],
         liquidation_swap : 1..3]
    ELSE IF prog = "fund_erc20" THEN
        \* the flags, each recipient's token balance, the funder's balances and pending count
        [dry_run : BOOLEAN, require_confirm : BOOLEAN, always_send : BOOLEAN,
         balances : UNION {[1..n -> 0..1] : n \in 0..MaxTxs - 1},
         target_units : {1}, max_fee_wei : {1},
         funder_token : 1..2, funder_xdai : 1..2, pending : 0..MaxNonce - 1]
    ELSE IF prog = "encode_swap" THEN
        \* the encoder, the amount, the deadline argument (None when left out), the
        \* timestamp of the latest block and the local clock, level with it or off by
        \* more than the window
        { [encoder |-> e, amount |-> MaxAmount, deadline |-> d, block_timestamp |-> b,
           time |-> b + skew] :
            e \in {"encode_swapr_exact_in_call", "encode_swapr_exact_out_call",
                   "encode_balancer_swap_call"},
            d \in {None, [value |-> 2 * DEADLINE_WINDOW]},
            b \in {DEADLINE_WINDOW, 2 * DEADLINE_WINDOW},
            skew \in {0 - DEADLINE_WINDOW, 0 - 1, 0, 1, DEADLINE_WINDOW} }
    ELSE \* futarchy_executor: the flag, the two environment variables, the deployments files
        LET file(i) == {[address |-> a, readable |-> r] :
                           a \in {"", IF i = 1 THEN "0xOlder" ELSE "0xLatest"}, r \in BOOLEAN}
        IN  [address : {"", "0xFlag"},
             env : [FUTARCHY_ARB_EXECUTOR_V5 : {"", "0xEnv1"}, EXECUTOR_V5_ADDRESS : {"", "0xEnv2"}],
             files : {<< >>} \cup {<<f>> : f \in file(2)}
                     \cup {<<f, g>> : f \in file(1), g \in file(2)}]

ToolIdle ==
    /\ t_pc = "idle" /\ t_prog = None /\ t_in = None
    /\ t_st = None /\ t_log = << >> /\ t_out = None

(***************************************************************************)
(* Specifications                                                          *)
(***************************************************************************)
RunIdle ==
    /\ pc = "idle" /\ amount_wei = 0 /\ broadcast = FALSE /\ min_profit = 0
    /\ bundle = << >> /\ sim_log = << >>
    /\ parsed_discovery = None /\ parsed_balanced = None /\ parsed_final = None
    /\ yes_out = 0 /\ no_out = 0 /\ target_amount = 0 /\ yes_used = 0 /\ no_used = 0
    /\ liquidation = None /\ simulation_results = None
    /\ builder_calls = << >> /\ tx_sent = << >> /\ error = None /\ result = None
    /\ chain = None

\* the account before the run: never delegated, with or without the sDAI of the trade
Chains(amt) == [nonce : {0}, code : {"none"}, sdai : {0, amt}, market : MarketsFor(amt)]

Init ==
    /\ pc = "start"
    /\ amount_wei \in Amounts
    /\ broadcast \in BOOLEAN
    /\ min_profit \in MinProfits
    /\ bundle = << >> /\ sim_log = << >>
    /\ parsed_discovery = None /\ parsed_balanced = None /\ parsed_final = None
    /\ yes_out = 0 /\ no_out = 0 /\ target_amount = 0 /\ yes_used = 0 /\ no_used = 0
    /\ liquidation = None /\ simulation_results = None
    /\ builder_calls = << >> /\ tx_sent = << >> /\ error = None /\ result = None
    /\ chain \in Chains(amount_wei)
    /\ FnIdle /\ CapIdle /\ ScriptIdle /\ BotIdle /\ ToolIdle

Next ==
    \/ StartDiscovery \/ DiscoveryReturns
    \/ StartBalance \/ BalanceReturns
    \/ StartFinal \/ FinalReturns
    \/ SimulationFails \/ ChainMoves
    \/ BuildFinalBundle \/ Broadcast \/ Receipt \/ ReturnSimulated

Spec == Init /\ [][Next]_vars

\* the run on the amount and the markets of the end-to-end scenario
ScenInit ==
    /\ pc = "start"
    /\ amount_wei = Scenario.input
    /\ broadcast \in BOOLEAN
    /\ min_profit \in MinProfits
    /\ bundle = << >> /\ sim_log = << >>
    /\ parsed_discovery = None /\ parsed_balanced = None /\ parsed_final = None
    /\ yes_out = 0 /\ no_out = 0 /\ target_amount = 0 /\ yes_used = 0 /\ no_used = 0
    /\ liquidation = None /\ simulation_results = None
    /\ builder_calls = << >> /\ tx_sent = << >> /\ error = None /\ result = None
    /\ chain \in Chains(amount_wei)
    /\ FnIdle /\ CapIdle /\ ScriptIdle /\ BotIdle /\ ToolIdle

ScenSpec == ScenInit /\ [][Next]_vars

FnInit ==
    /\ RunIdle /\ CapIdle /\ ScriptIdle /\ BotIdle /\ ToolIdle
    /\ fn_liq = None /\ fn_bundle = << >>
    /\ \/ /\ fn_pc = "planner"
          /\ fn_args \in [yes_amount : FnAmounts, no_amount : FnAmounts,
                          yes_used : FnAmounts, no_used : FnAmounts]
       \/ /\ fn_pc = "build"
          /\ fn_args \in [amount : {MaxFnAmount}, simulation_results : FnSimulationResults]

FnSpec == FnInit /\ [][ApplyPlanner \/ ApplyBuild]_vars

CapInit ==
    /\ RunIdle /\ FnIdle /\ ScriptIdle /\ BotIdle /\ ToolIdle
    /\ cap_pc = "start"
    \* w3.to_wei of k hundredths of a token
    /\ cap_amount \in {BigMul(IntToBig(k), BigPow10(WEI_DECIMALS_CENTI)) : k \in 1..CapMaxK}
    /\ cap_max_input = << >>

CapSpec == CapInit /\ [][ComputeMaxInput]_vars

\* one script of scripts/, on any account and arguments
ScriptInit ==
    /\ RunIdle /\ FnIdle /\ CapIdle /\ BotIdle /\ ToolIdle
    /\ s_pc = "start"
    /\ s_prog \in HandBuilt \cup {"execute_buy_conditional_bundle"}
    /\ s_args \in IF s_prog \in HandBuilt THEN {None}
                  ELSE [amount_wei : Amounts, skip_balancer : BOOLEAN, pool_id_set : BOOLEAN]
    \* the account before the script: any nonce, never delegated
    /\ s_chain \in [nonce : 0..MaxNonce, code : {"none"},
                    sdai : IF s_prog \in HandBuilt THEN {0} ELSE {0, s_args.amount_wei}]
    /\ s_nonce = 0 /\ s_auth = None /\ s_calls = << >> /\ s_tx = None
    /\ s_sent = << >> /\ s_ret = None

ScriptNext ==
    \/ ReadNonce \/ SignAuthorization \/ BuildSelfTransaction
    \/ CheckBalance \/ ConstructCalls \/ BuildBundleTransaction
    \/ SendRaw \/ ScriptReceipt

ScriptSpec == ScriptInit /\ [][ScriptNext]_vars

\* one bot in its loop, --send given
BotInit ==
    /\ RunIdle /\ FnIdle /\ CapIdle /\ ScriptIdle /\ ToolIdle
    /\ b_pc = "loop"
    /\ b_prog \in {"simple_bot", "light_bot"}
    /\ b_len \in IF b_prog = "light_bot" THEN {LIGHT_BUNDLE} ELSE 1..MaxTxs
    /\ b_account \in [nonce : 0..MaxNonce]
    /\ b_nonce = 0 /\ b_i = 0 /\ b_runs = 0 /\ b_log = << >>

BotNext ==
    \/ BotReadNonce \/ BotSend \/ BotSendFails \/ BotAllSent
    \/ BotReceipts \/ BotMerge \/ BotSleep

BotSpec == BotInit /\ [][BotNext]_vars

\* one helper or tool on one drawn input
ToolInit ==
    /\ RunIdle /\ FnIdle /\ CapIdle /\ ScriptIdle /\ BotIdle
    /\ t_pc = "start"
    /\ t_prog \in {"parse_bundle_results", "futarchy_executor", "encode_swap", "fees",
                 "send_allowances", "buy12",
                 "final_net", "fund_erc20"}
    /\ t_in \in ToolInputs(t_prog)
    /\ t_st = IF t_prog = "send_allowances" THEN [k |-> 1, nonce |-> t_in.nonce] ELSE None
    /\ t_log = << >> /\ t_out = None

ToolNext ==
    \/ ApplyDecoder \/ ResolveAddress \/ EncodeSwap \/ ComputeFees
    \/ SendApproval \/ ApprovalReceipt \/ ExecBuy12
    \/ FinalNet \/ FundPlan \/ FundTransfer \/ FundFinish

ToolSpec == ToolInit /\ [][ToolNext]_vars

(***************************************************************************)
(* Properties                                                              *)
(***************************************************************************)
PhaseOrder == <<"Discovery", "Balance", "Finalize">>

LastRequest == sim_log[Len(sim_log)]

\* the word the node returned for call i (counted from 1) of request k
ReturnedWord(k, i) == sim_log[k].result[i].words[1]

\* C1: no bundle with more than MAX_CALLS calls is ever simulated or broadcast
\* (building one is refused before any request goes to the node).
C1_NoOversizedBundleOnTheWire ==
    /\ \A k \in DOMAIN sim_log : Len(sim_log[k].calls) <= MAX_CALLS
    /\ \A k \in DOMAIN tx_sent : Len(tx_sent[k].calls) <= MAX_CALLS

\* C2: a transaction is sent only if the net profit of the final simulation
\* clears the minimum the caller specified.
C2_BroadcastOnlyIfNetClearsMinimum ==
    tx_sent # << >> => simulation_results.sdai_net >= min_profit

\* C3: the calls handed to the transaction builder (final_bundle, the
\* arguments of add_call) are the calls of the last simulated bundle (the
\* Finalize bundle), in the same order and with the same amounts.
C3_BuilderGetsConvergedBundle ==
    pc \in {"built", "sent", "done"} => bundle = LastRequest.calls

\* C4: the planner, called as the Balance phase calls it (both legs received
\* the target), selects YES (leg A) when yes_used > no_used, NO (leg B) when
\* yes_used < no_used and NONE with no extra call when they are equal, and
\* the amount is |yes_used - no_used|.
C4_DirectionFollowsUsedAmounts ==
    (fn_pc = "planned" /\ fn_args.yes_amount = fn_args.no_amount) =>
        LET ya == fn_args.yes_used
            na == fn_args.no_used
        IN  /\ ya > na => fn_liq = [amount |-> ya - na, token_type |-> "YES"]
            /\ ya < na => fn_liq = [amount |-> na - ya, token_type |-> "NO"]
            /\ ya = na => fn_liq = [amount |-> 0, token_type |-> "NONE"] /\ fn_bundle = << >>

\* C5: the used amounts given to the planner are the input amounts the two
\* exact-output swaps returned in the Balance simulation (bundle indices 3 and 5).
C5_UsedAmountsAreDecodedInputs ==
    pc \in {"final", "final_call", "simulated", "built", "sent", "done"} =>
        /\ yes_used = ReturnedWord(2, 4)
        /\ no_used = ReturnedWord(2, 6)

\* C6 as stated: the error of a failed simulation reaches the caller with the
\* name of the phase that failed.
C6_ErrorNamesPhase ==
    (error # None /\ error.type \in {"Exception", "NodeError"}) =>
        \E i \in DOMAIN error.message : error.message[i] = LastRequest.phase

\* C6 amended: a failed simulation aborts the run at once: the failing
\* request is the last one sent and has no results, nothing is handed to the
\* builder, nothing is sent, nothing is returned; the exception carries
\* "Dry run failed" and the decoded reason when the node gave revert data,
\* and it does not carry the phase name.
C6_RevertAbortsRun ==
    (error # None /\ error.type \in {"Exception", "NodeError"}) =>
        /\ pc = "aborted"
        /\ LastRequest.result = None
        /\ \A k \in 1..(Len(sim_log) - 1) : sim_log[k].result # None
        /\ builder_calls = << >> /\ tx_sent = << >>
        /\ simulation_results = None /\ result = None
        /\ error.type = "Exception" =>
              /\ error.message[1] = "Dry run failed"
              /\ \E d \in RevertData : SubSeq(error.message, 2, Len(error.message))
                                        = decode_revert_reason(d)
        /\ \A i \in DOMAIN error.message : error.message[i] \notin {"Discovery", "Balance", "Finalize"}

C6_Witness ==
    /\ pc = "aborted" /\ error # None /\ error.type = "Exception"
    /\ Len(sim_log) = 2 /\ error.message = <<"Dry run failed", "Error", "STF">>

\* C7: the requests go out in the order Discovery, Balance, Finalize, each at
\* most once, and a phase's request is sent only after the results of the
\* phase before have come back and been decoded.
C7_PhasesInOrder ==
    /\ Len(sim_log) <= Len(PhaseOrder)
    /\ \A k \in DOMAIN sim_log : sim_log[k].phase = PhaseOrder[k]
    /\ \A k \in 1..(Len(sim_log) - 1) : sim_log[k].result # None
    /\ Len(sim_log) >= 2 => parsed_discovery # None
    /\ Len(sim_log) >= 3 => parsed_balanced # None

C7_Witness == Len(sim_log) = 3 /\ pc = "final_call"

\* the calls of a bundle that spend an allowance, with spender, token and amount
IsSwap(call) == call.data.selector \in {"exactInputSingle", "exactOutputSingle", "swap"}

SpentToken(call) == IF call.data.selector = "swap" THEN call.data.asset_in ELSE call.data.token_in

SpentAmount(call) ==
    IF call.data.selector = "swap" THEN call.data.amount
    ELSE IF call.data.selector = "exactInputSingle" THEN call.data.amount_in
    ELSE call.data.amount_in_max

IsApprovalFor(call, swap) ==
    /\ call.data.selector = "approve"
    /\ call.target = SpentToken(swap)
    /\ call.data.spender = swap.target

\* every swap has an approval of its token to its spender at a lower index, and
\* the last such approval covers what the swap may consume
SwapsCovered(calls) ==
    \A i \in DOMAIN calls : IsSwap(calls[i]) =>
        /\ \E j \in 1..(i - 1) : IsApprovalFor(calls[j], calls[i])
        /\ \A j \in 1..(i - 1) :
              (/\ IsApprovalFor(calls[j], calls[i])
               /\ \A l \in (j + 1)..(i - 1) : ~IsApprovalFor(calls[l], calls[i]))
              => calls[j].data.amount >= SpentAmount(calls[i])

\* C8: in every bundle built (without results, with a target, with
\* liquidation calls appended) and in the liquidation calls themselves, each
\* swap is preceded by an approval of the same token to the same spender for
\* at least the amount the swap may consume.
C8_SwapsPrecededByApproval == SwapsCovered(fn_bundle)

C8_Witness ==
    /\ fn_pc = "built" /\ Len(fn_bundle) = 16
    /\ fn_bundle[4].data.selector = "exactOutputSingle"
    /\ fn_bundle[4].data.amount_in_max > fn_args.amount

\* C9: the Balance phase targets min(outputA, outputB) of the Discovery
\* results, and both legs of its bundle are exact-output swaps for the target.
C9_BalanceTargetsMin ==
    Len(sim_log) >= 2 =>
        /\ target_amount = Min(ReturnedWord(1, 4), ReturnedWord(1, 6))
        /\ \A i \in {4, 6} :
              /\ sim_log[2].calls[i].data.selector = "exactOutputSingle"
              /\ sim_log[2].calls[i].data.amount_out = target_amount
        /\ sim_log[2].calls[4].data.token_in = "SDAI_YES"
        /\ sim_log[2].calls[6].data.token_in = "SDAI_NO"

C9_Witness ==
    /\ Len(sim_log) >= 2
    /\ ReturnedWord(1, 4) > ReturnedWord(1, 6)
    /\ target_amount = ReturnedWord(1, 6)

\* C10: the maximum input of an exact-output leg swap is at most the input
\* amount plus 10%, so a leg cannot use more than that.
C10_MaxInputWithinCeiling ==
    cap_pc = "done" =>
        BigLeq(BigMul(cap_max_input, IntToBig(10)), BigMul(cap_amount, IntToBig(11)))

\* the scenario has happened: Discovery returned its outputs, Balance its used amounts,
\* and the Finalize request has gone out
InScenario ==
    /\ amount_wei = Scenario.input /\ Len(sim_log) = 3
    /\ ReturnedWord(1, 4) = Scenario.outputA /\ ReturnedWord(1, 6) = Scenario.outputB
    /\ ReturnedWord(2, 4) = Scenario.usedA /\ ReturnedWord(2, 6) = Scenario.usedB

\* C11: in the end-to-end scenario the target is outputB, the plan is
\* (residual, leg A), and the Finalize bundle ends with the two calls of the
\* direct-swap liquidation: an approval and an exact-input swap of the
\* residual of leg A's conditional sDAI to sDAI.
C11_ScenarioLiquidatesResidual ==
    InScenario =>
        /\ target_amount = Scenario.outputB
        /\ liquidation = [amount |-> Scenario.residual, token_type |-> "YES"]
        /\ Len(LastRequest.calls) = 13
        /\ LastRequest.calls[13] =
              encode_swapr_exact_in_call("SWAPR_ROUTER", "SDAI_YES", "SDAI_TOKEN",
                                         Scenario.residual, 0, "FUTARCHY_BATCH_EXECUTOR")

\* the part of C11 the code does: the scenario is reached and its target is outputB
C11_ScenarioTarget == InScenario /\ target_amount = Scenario.outputB

\* the selectors of the calls that follow the eleven calls of the trade
LiquidationSelectors(calls) ==
    [i \in 1..(Len(calls) - 11) |-> calls[i + 11].data.selector]

\* a bundle was built from a dict that holds a plan
BuiltWithPlan ==
    fn_pc = "built" /\ HasKey(fn_args.simulation_results, "liquidation")

CallReverted == error # None /\ error.type = "Exception" /\ LastRequest.failed_at # 0

\* C13: when a call of a simulated bundle reverts, the caller gets one error
\* for the whole run that carries the index of the failing call and the
\* decoded reason, and no per-call results.
C13_RevertCarriesIndex ==
    CallReverted =>
        /\ LastRequest.result = None
        /\ \E d \in RevertData : SubSeq(error.message, 2, Len(error.message))
                                  = decode_revert_reason(d)
        /\ "index" \in DOMAIN error
        /\ error.index = LastRequest.failed_at

\* the part of C13 the code does: the second leg swap of the Balance bundle
\* reverts, and the caller gets the decoded reason and no results
C13_Witness ==
    /\ CallReverted /\ LastRequest.phase = "Balance" /\ LastRequest.failed_at = 6
    /\ LastRequest.result = None /\ parsed_balanced = None
    /\ error.message = <<"Dry run failed", "Error", "STF">>

(***************************************************************************)
(* C14: in a transaction a script builds by hand, the transaction's nonce  *)
(* is the account's current transaction nonce and the nonce signed into    *)
(* its authorization is that nonce plus one.                               *)
(***************************************************************************)
C14_AuthorizationNonce ==
    (s_prog \in HandBuilt /\ s_pc \in {"send", "receipt", "done"} /\ s_tx # None) =>
        /\ s_tx.nonce = s_nonce
        /\ Len(s_tx.authorizationList) = 1
        /\ s_tx.authorizationList[1].nonce = s_tx.nonce + 1
        /\ s_pc \in {"send", "receipt"} => s_tx.nonce = s_chain.nonce

C14_Witness ==
    /\ s_prog \in HandBuilt /\ s_pc = "receipt" /\ s_sent = <<s_tx>>
    /\ s_chain.nonce = 1 /\ s_tx.nonce = 1 /\ s_tx.authorizationList[1].nonce = 2

(***************************************************************************)
(* C15: a transaction the builder returns has type 4, is addressed to the  *)
(* sender itself and carries exactly one authorization, whichever calls    *)
(* were added (nine or ten of them in the script).                         *)
(***************************************************************************)
C15_BuiltTransactionShape ==
    (s_prog = "execute_buy_conditional_bundle" /\ s_pc \in {"send", "receipt", "done"}
        /\ s_tx # None) =>
        /\ s_tx.type = 4
        /\ s_tx.to = "account"
        /\ Len(s_tx.authorizationList) = 1

C15_Witness ==
    /\ s_prog = "execute_buy_conditional_bundle" /\ s_pc = "send" /\ s_tx # None
    /\ Len(s_tx.calls) = 9 /\ s_tx.type = 4

(***************************************************************************)
(* C16: the transaction that is built carries every call constructed for   *)
(* the bundle, in the order of construction, none omitted.                 *)
(***************************************************************************)
C16_AllCallsEncoded ==
    (s_prog = "execute_buy_conditional_bundle" /\ s_pc \in {"send", "receipt", "done"}
        /\ s_tx # None) =>
        /\ Len(s_tx.calls) = Len(s_calls)
        /\ s_tx.calls = s_calls

\* with the sale on the pool skipped, the nine calls constructed are all sent
C16_NineCallsSent ==
    /\ s_prog = "execute_buy_conditional_bundle" /\ s_pc = "receipt"
    /\ Len(s_calls) = 9 /\ s_sent = <<s_tx>> /\ s_tx.calls = s_calls

(***************************************************************************)
(* C17: the account nonce is read once per run of a bot, the transactions  *)
(* of the run use that nonce plus their index, and after a failed          *)
(* broadcast nothing is sent before the account nonce is read again.       *)
(***************************************************************************)
C17_FreshReadAfterFailure ==
    \A k \in 1..Len(b_log) :
        b_log[k].kind = "send" =>
            \E r \in 1..(k - 1) :
                /\ b_log[r].kind = "read"
                /\ \A j \in (r + 1)..(k - 1) : b_log[j].kind = "send" /\ b_log[j].ok
                /\ b_log[k].nonce = b_log[r].nonce + (k - r - 1)

\* a broadcast failed, the nonce was read again, and a transaction was sent
C17_Witness ==
    \E j, r, k \in 1..Len(b_log) :
        /\ j < r /\ r < k
        /\ b_log[j].kind = "send" /\ ~b_log[j].ok
        /\ b_log[r].kind = "read"
        /\ b_log[k].kind = "send"

\* C17 as stated: every transaction is sent right after its own read of the nonce
C17_ReadPerTransaction ==
    \A k \in 1..Len(b_log) :
        b_log[k].kind = "send" => (k > 1 /\ b_log[k - 1].kind = "read")

(***************************************************************************)
(* C18: when the account holds less sDAI than the input amount, the run    *)
(* fails before any simulation is requested and before any broadcast.      *)
(***************************************************************************)
C18_FailsFastOnBalance ==
    /\ sim_log # << >> => sim_log[1].at.sdai >= amount_wei
    /\ tx_sent # << >> => sim_log[1].at.sdai >= amount_wei

\* the shortfall is found by the node, in the Discovery simulation
C18_FoundBySimulation ==
    /\ pc = "aborted" /\ Len(sim_log) = 1
    /\ sim_log[1].phase = "Discovery" /\ sim_log[1].at.sdai < amount_wei
    /\ sim_log[1].failed_at = 2 /\ error # None

(***************************************************************************)
(* C19: the simulations change nothing on the chain.  The account's nonce, *)
(* code and sDAI only change when a transaction that was broadcast is      *)
(* mined, so a run that stops before the broadcast leaves them as they     *)
(* were.                                                                   *)
(***************************************************************************)
C19_SimulationLeavesChain ==
    [][(\/ chain'.nonce # chain.nonce
        \/ chain'.code # chain.code
        \/ chain'.sdai # chain.sdai) => (pc = "sent" /\ tx_sent # << >>)]_vars

\* three simulations were made, nothing was sent, the account is as before the run
C19_Witness ==
    /\ Len(sim_log) = 3 /\ sim_log[3].result # None /\ tx_sent = << >> /\ result # None
    /\ chain.nonce = 0 /\ chain.code = "none" /\ chain.sdai = sim_log[1].at.sdai

C21_UndecodableIsLocal ==
    (t_prog = "parse_bundle_results" /\ t_pc = "done") =>
        \A i \in 1..Len(discovery_map) :
            LET ty == discovery_map[i][1]
                r == t_in.results[i]
                undecodable == \/ ty = "approval" /\ ByteLen(r) > 0 /\ BoolRaises(r)
                               \/ ty \in {"swap", "balancer_swap"} /\ Uint256Raises(r)
            IN  /\ discovery_map[i][2] \in DOMAIN t_out
                /\ undecodable => "error" \in DOMAIN t_out[discovery_map[i][2]]

\* a swap returned one byte: its entry is an error, the pool swap is still decoded
C21_SwapErrorIsLocal ==
    /\ t_prog = "parse_bundle_results" /\ t_pc = "done"
    /\ ByteLen(t_in.results[4]) = 1
    /\ "yes_swap_exact_in" \in DOMAIN t_out
    /\ "error" \in DOMAIN t_out["yes_swap_exact_in"]
    /\ "final_swap" \in DOMAIN t_out
    /\ t_out["final_swap"] = [amount_out |-> MaxWord]

(***************************************************************************)
(* C22: when a run has ended, either all of its transactions were accepted *)
(* by the chain or none of them was: no run leaves only its first          *)
(* operations (split, swaps) applied.                                      *)
(***************************************************************************)
C22_AllOrNothing ==
    b_pc = "sleep" =>
        LET r == CHOOSE i \in 1..Len(b_log) :
                    /\ b_log[i].kind = "read"
                    /\ \A j \in (i + 1)..Len(b_log) : b_log[j].kind = "send"
            accepted == {k \in (r + 1)..Len(b_log) : b_log[k].ok}
            refused == {k \in (r + 1)..Len(b_log) : ~b_log[k].ok}
        IN  \/ accepted = {}
            \/ refused = {} /\ Cardinality(accepted) >= b_len

\* a run of light_bot whose split, swaps and merge were all accepted
C22_CompleteRun ==
    /\ b_pc = "sleep" /\ b_prog = "light_bot" /\ b_runs = 1
    /\ Len(b_log) = LIGHT_BUNDLE + 2
    /\ \A k \in 1..Len(b_log) : b_log[k].ok

(***************************************************************************)
(* C23: the executor's address is the --address flag if given, else the    *)
(* environment variable FUTARCHY_ARB_EXECUTOR_V5 or EXECUTOR_V5_ADDRESS if *)
(* set, else the address of the latest deployments file.                   *)
(***************************************************************************)
C23_DocumentedOrder ==
    (t_prog = "futarchy_executor" /\ t_pc = "done" /\ "address" \in DOMAIN t_out) =>
        t_out.address =
            IF t_in.address # "" THEN t_in.address
            ELSE IF t_in.env.FUTARCHY_ARB_EXECUTOR_V5 # "" THEN t_in.env.FUTARCHY_ARB_EXECUTOR_V5
            ELSE IF t_in.env.EXECUTOR_V5_ADDRESS # "" THEN t_in.env.EXECUTOR_V5_ADDRESS
            ELSE t_in.files[Len(t_in.files)].address

\* the flag is given together with a variable and a file: the flag is taken
C23_FlagFirst ==
    /\ t_prog = "futarchy_executor" /\ t_pc = "done"
    /\ t_in.address = "0xFlag" /\ t_in.env.FUTARCHY_ARB_EXECUTOR_V5 = "0xEnv1"
    /\ t_in.files # << >>
    /\ t_out = [address |-> "0xFlag", source |-> "cli --address"]

(***************************************************************************)
(* C25: the deadline of an encoded swap is the timestamp of the latest     *)
(* block plus the window of 600 seconds, whatever the local clock shows.   *)
(***************************************************************************)
C25_DeadlineFromBlock ==
    (t_prog = "encode_swap" /\ t_pc = "done" /\ t_in.deadline = None) =>
        t_out.deadline = t_in.block_timestamp + DEADLINE_WINDOW

\* with the local clock level with the chain the two deadlines coincide
C25_ClockInStep ==
    /\ t_prog = "encode_swap" /\ t_pc = "done" /\ t_in.deadline = None
    /\ t_in.time = t_in.block_timestamp
    /\ t_out.deadline = t_in.block_timestamp + DEADLINE_WINDOW

(***************************************************************************)
(* C26: with a base fee, maxFeePerGas = baseFee * multiplier + tip and     *)
(* maxPriorityFeePerGas = tip (multiplier and tip from the environment for *)
(* _eip1559_fees; 1.2, rounded down, and 3 gwei for the bundle's fees);    *)
(* without a base fee, gasPrice = gas price + bump.                        *)
(***************************************************************************)
C26_FeeFields ==
    (t_prog = "fees" /\ t_pc = "done") =>
        LET tip == IF t_in.fn = "_eip1559_fees" THEN IntToBig(t_in.tip)
                   ELSE BigMul(IntToBig(3), BigPow10(9))
            scaled == IF t_in.fn = "_eip1559_fees" THEN t_in.base_fee.value * t_in.mult
                      ELSE (t_in.base_fee.value * 12) \div 10
            field(f) == IF t_in.fn = "_eip1559_fees" THEN IntToBig(t_out[f]) ELSE t_out[f]
        IN  IF t_in.base_fee # None
            THEN /\ "maxFeePerGas" \in DOMAIN t_out
                 /\ field("maxFeePerGas") = BigAdd(IntToBig(scaled), tip)
                 /\ field("maxPriorityFeePerGas") = tip
            ELSE /\ "gasPrice" \in DOMAIN t_out
                 /\ \E bump \in {1, 2} : t_out.gasPrice = t_in.gas_price + bump

\* _eip1559_fees without a base fee: the gas price plus the bump
C26_LegacyBumped ==
    /\ t_prog = "fees" /\ t_pc = "done" /\ t_in.fn = "_eip1559_fees"
    /\ t_in.base_fee = None /\ t_in.gas_price = 1 /\ t_in.bump = 2
    /\ t_out = [gasPrice |-> 3]

(***************************************************************************)
(* C27: send_allowances sends the approvals one at a time in the order of  *)
(* the list: an approval is sent only after the receipt of the one before  *)
(* it arrived with status 1, and after a reverted approval an error is     *)
(* raised and nothing more is sent.                                        *)
(***************************************************************************)
C27_OneAtATime ==
    t_prog = "send_allowances" =>
        \A p \in 1..Len(t_log) :
            LET ev == t_log[p]
            IN  /\ ev.approval = ALLOWANCES[ev.k]
                /\ ev.nonce = t_in.nonce + ev.k - 1
                /\ ev.kind = "send" =>
                      /\ ev.k = (p + 1) \div 2 /\ p % 2 = 1
                      /\ p > 1 => (/\ t_log[p - 1].kind = "receipt"
                                   /\ t_log[p - 1].k = ev.k - 1
                                   /\ t_log[p - 1].status = 1)
                /\ (ev.kind = "receipt" /\ ev.status # 1) =>
                      /\ p = Len(t_log)
                      /\ t_pc = "done" /\ t_out = [raised |-> "RuntimeError"]

\* the second approval was sent after the first was confirmed, and reverted
C27_Witness ==
    /\ t_prog = "send_allowances" /\ t_pc = "done" /\ Len(t_log) = 4
    /\ t_log[2].status = 1 /\ t_log[3].kind = "send" /\ t_log[3].k = 2
    /\ t_log[4].kind = "receipt" /\ t_log[4].status = 0
    /\ t_out = [raised |-> "RuntimeError"]

(***************************************************************************)
(* C28: in the --buy12 flow the contract is told that YES has the lower    *)
(* price exactly when the user chose YES as the cheaper leg: --side-lower  *)
(* yes, or --yes-cheaper without --side-lower.                             *)
(***************************************************************************)
C28_YesLowerAsChosen ==
    (t_prog = "buy12" /\ t_pc = "done" /\ "yes_has_lower_price" \in DOMAIN t_out) =>
        t_out.yes_has_lower_price =
            (t_in.side_lower = "yes" \/ (t_in.side_lower = "" /\ t_in.yes_cheaper))

\* the user chose YES as the cheaper leg and the call was built
C28_YesChosen ==
    /\ t_prog = "buy12" /\ t_pc = "done" /\ t_in.side_lower = "yes"
    /\ "yes_has_lower_price" \in DOMAIN t_out
    /\ t_out.yes_has_higher_price = ~t_out.yes_has_lower_price

C29_NonceCountsAccepted ==
    t_prog = "fund_erc20" =>
        \A i \in 1..Len(t_log) :
            t_log[i].kind = "transfer" =>
                t_log[i].nonce = t_in.pending
                    + Cardinality({j \in 1..(i - 1) : t_log[j].accepted})

\* two transfers, the first accepted by the node, with consecutive nonces
C29_ConsecutiveWhenAccepted ==
    /\ t_prog = "fund_erc20" /\ Len(t_log) >= 2
    /\ t_log[1].kind = "transfer" /\ t_log[2].kind = "transfer"
    /\ t_log[1].accepted
    /\ t_log[1].nonce = t_in.pending /\ t_log[2].nonce = t_in.pending + 1

====
